---- MODULE Spec2Model ----
(***************************************************************************)
(* Model of the upstream -> local sync of mtgo-db (scripts/sync-upstream): *)
(* the diff of event ids, the player identity reconciliation, and the      *)
(* dependency-ordered, chunked upsert pipeline of sync().                  *)
(*                                                                         *)
(* A table is a set of rows (records).  `upstream` is the source database, *)
(* `local` the target database; both are records of six tables.  Columns   *)
(* that the sync only copies (names, records, points, card lists ...) are   *)
(* folded into one column `v`.                                             *)
(***************************************************************************)
EXTENDS Integers, Sequences, FiniteSets, TLC

VARIABLES
  upstream,            \* source database: [events, players, standings, matches, decks, archetypes]
  local,               \* target database, same shape
  pc,                  \* position of the sync process
  runs,                \* number of sync invocations so far
  failures,            \* number of awaited statements that rejected so far
  localEventIds,       \* sync(): const localEventIds
  incompleteEventIds,  \* sync(): const incompleteEventIds
  newEvents,           \* sync(): const newEvents
  allEventIdsToSync,   \* sync(): const allEventIdsToSync
  playerNames,         \* syncPlayers(): const playerNames
  playersToSync,       \* syncPlayers(): const playersToSync
  rows,                \* the record set fetched by the running stage
  i,                   \* loop index of the running stage's batch loop
  batchSize,           \* const BATCH_SIZE of the running stage, in modelled rows
  stats,               \* sync(): const stats
  stageLog,            \* history: stage of every write statement issued in this run
  lastWrite,           \* history: stage and rows of the last committed write statement
  synthLog,            \* history: players committed with a synthesized id
  prevDone,            \* history: <<target as the previous run left it>> if it succeeded, else <<>>
  abortedWork,         \* history: <<worklist of the aborted run, aborted by a connection test>>, else <<>>
  beforeStage,         \* history: the target when the running stage fetched its record set
  merge,               \* merge-dump: the dump argument and the temporary database
  other,               \* a second sync process, followed through its syncPlayers
  reads                \* history: the stages of this run that sent a SELECT to the source

db      == <<upstream, local>>
runVars == <<localEventIds, incompleteEventIds, newEvents, allEventIdsToSync,
             playerNames, playersToSync, rows, i, batchSize, stats>>
hist    == <<stageLog, lastWrite, synthLog, prevDone, abortedWork, beforeStage>>
vars    == <<upstream, local, pc, runs, failures, localEventIds, incompleteEventIds,
             newEvents, allEventIdsToSync, playerNames, playersToSync, rows, i,
             batchSize, stats, stageLog, lastWrite, synthLog, prevDone, abortedWork,
             beforeStage, merge, other, reads>>

-----------------------------------------------------------------------------
(* Bounds of the model *)

\* sync invocations explored
MaxRuns == 2
\* rejected statements (connection loss and the like) explored
MaxFailures == 1
\* one modelled row stands for a block of RowScale rows of a record set
RowScale == 6500
\* one modelled event stands for a block of EventScale events of the recency window
EventScale == 100
\* chunk sizes (in modelled rows) the write statements are tried with
MaxChunk == 3
\* one modelled element of a list bound into a statement to the source stands for a
\* block of ListScale elements
ListScale == 33000

(* Program constants *)

\* getIncompleteEventIds: LIMIT 100
INCOMPLETE_LIMIT == 100
\* syncStandings: const BATCH_SIZE = 8000
BATCH_SIZE_STANDINGS == 8000
\* syncMatches: const BATCH_SIZE = 7000
BATCH_SIZE_MATCHES == 7000
\* syncDecks: const BATCH_SIZE = 13000
BATCH_SIZE_DECKS == 13000
\* syncArchetypes: const BATCH_SIZE = 13000
BATCH_SIZE_ARCHETYPES == 13000

\* "to avoid parameter limit (65,534 parameters)"
PARAM_LIMIT == 65534

\* a batch size in modelled rows
Batch(size) == size \div RowScale
\* the recency window in modelled events
Window == (INCOMPLETE_LIMIT + EventScale - 1) \div EventScale

None == "none"

Names == {"Alice", "Bob", "Zed"}
NameOrd(n) == CASE n = "Alice" -> 1 [] n = "Bob" -> 2 [] OTHER -> 3

EventIdSet == {100, 200}
\* event 200 is the more recent one
EventDate(id) == IF id = 200 THEN 2 ELSE 1

-----------------------------------------------------------------------------
(* Helpers on sequences and tables *)

Range(s) == {s[k] : k \in 1..Len(s)}

Min(S) == CHOOSE x \in S : \A y \in S : x <= y

\* every order in which an unordered query may return the elements of S
Orders(S) == {s \in [1..Cardinality(S) -> S] : \A a \in S : \E k \in DOMAIN s : s[k] = a}

RECURSIVE OrderBy(_, _)
\* the rows of S in ascending order of key (ORDER BY)
OrderBy(S, key) ==
  IF S = {} THEN <<>>
  ELSE LET m == CHOOSE x \in S : \A y \in S : key[x] <= key[y]
       IN  <<m>> \o OrderBy(S \ {m}, key)

Take(s, n) == SubSeq(s, 1, IF n < Len(s) THEN n ELSE Len(s))

Ids(tbl) == {r.id : r \in tbl}
PlayerNamesOf(tbl) == {r.name : r \in tbl}

EmptyDb == [events |-> {}, players |-> {}, standings |-> {}, matches |-> {},
            decks |-> {}, archetypes |-> {}]

ZeroStats == [events |-> 0, players |-> 0, matches |-> 0, decks |-> 0,
              standings |-> 0, archetypes |-> 0]

-----------------------------------------------------------------------------
(* Diff engine: the queries of getLocalEventIds, getIncompleteEventIds and   *)
(* getUpstreamEvents                                                        *)

\* ORDER BY date DESC, id DESC
ByRecency(S) == OrderBy(S, [e \in S |-> 0 - (e.date * 1000 + e.id)])

\* the ids of the target events that have standings only
LocalEventIdsQuery_WithStandingsOnly(d) ==
  {e.id : e \in {x \in d.events : \E r \in d.standings : r.event_id = x.id}}

\* SELECT id FROM events
LocalEventIdsQuery(d) == Ids(d.events)

\* the WHERE clause without its test of the player count
IsIncomplete_AnyPlayerCount(d, e) ==
  \/ ~ \E s \in d.standings : s.event_id = e.id
  \/ ~ \E m \in d.matches : m.event_id = e.id

\* events with players > 0 that miss every standing or every match; the column
\* players is nullable (<<>> is NULL, <<n>> the count n) and NULL > 0 selects nothing
IsIncomplete(d, e) ==
  /\ e.players # <<>>
  /\ e.players[1] > 0
  /\ \/ ~ \E s \in d.standings : s.event_id = e.id
     \/ ~ \E m \in d.matches : m.event_id = e.id

\* the incomplete events query without its LIMIT
IncompleteEventIdsQuery_NoLimit(d) ==
  LET incompleteEvents == ByRecency({e \in d.events : IsIncomplete(d, e)})
  IN  [k \in 1..Len(incompleteEvents) |-> incompleteEvents[k].id]

\* SELECT DISTINCT e.id ... ORDER BY e.date DESC, e.id DESC LIMIT 100
IncompleteEventIdsQuery(d) ==
  LET incompleteEvents == Take(ByRecency({e \in d.events : IsIncomplete(d, e)}), Window)
  IN  [k \in 1..Len(incompleteEvents) |-> incompleteEvents[k].id]

\* the events query without its NOT IN filter
UpstreamEventsQuery_NoExclude(u, excludeIds) == ByRecency(u.events)

\* SELECT ... FROM events [WHERE id NOT IN excludeIds] ORDER BY date DESC, id DESC
UpstreamEventsQuery(u, excludeIds) ==
  IF excludeIds = {}
  THEN ByRecency(u.events)
  ELSE ByRecency({e \in u.events : e.id \notin excludeIds})

EventIdsOf(events) == [k \in 1..Len(events) |-> events[k].id]

-----------------------------------------------------------------------------
(* Identity reconciler: syncPlayers *)

\* the names query without its matches and decks branches
ReferencedPlayerNames_StandingsOnly(u, eventIds) ==
  {s.player : s \in {x \in u.standings : x.event_id \in Range(eventIds)}}

\* SELECT DISTINCT player FROM standings ... UNION ... matches ... UNION ... decks
ReferencedPlayerNames(u, eventIds) ==
  {s.player : s \in {x \in u.standings : x.event_id \in Range(eventIds)}}
    \cup {m.player : m \in {x \in u.matches : x.event_id \in Range(eventIds)}}
    \cup {k.player : k \in {x \in u.decks : x.event_id \in Range(eventIds)}}

\* SELECT p.id, p.name FROM players p WHERE p.name IN playerNames, as a Map name -> id
UpstreamPlayerMap(u, names) ==
  LET found == {p \in u.players : p.name \in Range(names)}
  IN  [n \in PlayerNamesOf(found) |-> (CHOOSE p \in found : p.name = n).id]

\* nextNegativeId started at -1 whatever the target holds
FirstNegativeId_IgnoreLocal(localPlayers) == 0 - 1

\* minNegativeId - 1
FirstNegativeId(localPlayers) ==
  LET negativeIds == {p.id : p \in {q \in localPlayers : q.id < 0}}
      minNegativeId == IF negativeIds # {} THEN Min(negativeIds) ELSE 0
  IN  minNegativeId - 1

\* the collision test without the lookup in localPlayerIdSet
ResolveId_AnyPositiveCollides(upstreamPlayerMap, localPlayerIdSet, playerName, nextNegativeId) ==
  LET known == playerName \in DOMAIN upstreamPlayerMap
      id0   == IF known THEN upstreamPlayerMap[playerName] ELSE nextNegativeId
      next0 == IF known THEN nextNegativeId ELSE nextNegativeId - 1
  IN  IF id0 > 0
      THEN [id |-> next0, next |-> next0 - 1]
      ELSE [id |-> id0, next |-> next0]

\* a temporary id derived from the name instead of the counter
ResolveId_PerName(upstreamPlayerMap, localPlayerIdSet, playerName, nextNegativeId) ==
  LET known == playerName \in DOMAIN upstreamPlayerMap
      own   == 0 - (10 + NameOrd(playerName))
  IN  IF known /\ ~ (upstreamPlayerMap[playerName] > 0
                     /\ upstreamPlayerMap[playerName] \in localPlayerIdSet)
      THEN [id |-> upstreamPlayerMap[playerName], next |-> nextNegativeId]
      ELSE [id |-> own, next |-> nextNegativeId]

\* one iteration of the loop over playerNames for a name that is not local:
\* the id it pushes and the value of nextNegativeId it leaves
ResolveId(upstreamPlayerMap, localPlayerIdSet, playerName, nextNegativeId) ==
  LET known == playerName \in DOMAIN upstreamPlayerMap
      id0   == IF known THEN upstreamPlayerMap[playerName] ELSE nextNegativeId
      next0 == IF known THEN nextNegativeId ELSE nextNegativeId - 1
  IN  IF id0 > 0 /\ id0 \in localPlayerIdSet
      THEN [id |-> next0, next |-> next0 - 1]
      ELSE [id |-> id0, next |-> next0]

\* the loop without its skip of local names
ExistsLocally_Never(localPlayerNames, playerName) == FALSE

\* the guard of the loop body: "Already exists locally, skip"
ExistsLocally(localPlayerNames, playerName) == playerName \in localPlayerNames

RECURSIVE PlayersLoop(_, _, _, _)
\* for (const playerName of playerNames) { ... playersToSync.push({ id, name }) }
PlayersLoop(names, upstreamPlayerMap, localPlayers, nextNegativeId) ==
  IF names = <<>> THEN <<>>
  ELSE IF ExistsLocally(PlayerNamesOf(localPlayers), Head(names))
  THEN PlayersLoop(Tail(names), upstreamPlayerMap, localPlayers, nextNegativeId)
  ELSE LET r == ResolveId(upstreamPlayerMap, Ids(localPlayers), Head(names), nextNegativeId)
       IN  <<[id |-> r.id, name |-> Head(names)]>>
             \o PlayersLoop(Tail(names), upstreamPlayerMap, localPlayers, r.next)

\* the batch syncPlayers builds from the names in the order the query returned them
PlayersToSync(u, d, names) ==
  PlayersLoop(names, UpstreamPlayerMap(u, names), d.players, FirstNegativeId(d.players))

RECURSIVE InsertPlayers(_, _)
\* INSERT INTO players ... ON CONFLICT (name) DO NOTHING, one statement: a row whose
\* name exists is dropped, a row whose id exists raises a unique violation and the
\* statement has no effect
InsertPlayers(tbl, batch) ==
  IF batch = <<>> THEN [ok |-> TRUE, tbl |-> tbl]
  ELSE LET p == Head(batch) IN
       IF p.name \in PlayerNamesOf(tbl) THEN InsertPlayers(tbl, Tail(batch))
       ELSE IF p.id \in Ids(tbl) THEN [ok |-> FALSE, tbl |-> tbl]
       ELSE InsertPlayers(tbl \cup {p}, Tail(batch))

-----------------------------------------------------------------------------
(* Batched upsert writer: the statements of syncEvents ... syncArchetypes *)

StandingKey(r) == <<r.event_id, r.player>>
MatchKey(r) == <<r.event_id, r.round, r.player>>

\* a write of events that empties the table first
UpsertEvents_ReplaceAll(tbl, batch) == Range(batch)

\* INSERT INTO events ... ON CONFLICT (id) DO UPDATE SET <every other column>
UpsertEvents(tbl, batch) ==
  {r \in tbl : r.id \notin Ids(Range(batch))} \cup Range(batch)

\* the standings statement as an insert that leaves existing rows alone
UpsertStandings_DoNothing(tbl, batch) ==
  tbl \cup {b \in Range(batch) : \A r \in tbl : StandingKey(b) # StandingKey(r)}

\* INSERT INTO standings ... ON CONFLICT (event_id, player) DO UPDATE SET ...
UpsertStandings(tbl, batch) ==
  {r \in tbl : \A b \in Range(batch) : StandingKey(b) # StandingKey(r)} \cup Range(batch)

\* INSERT INTO matches ... ON CONFLICT (event_id, round, player) DO UPDATE SET id = ...
UpsertMatches(tbl, batch) ==
  {r \in tbl : \A b \in Range(batch) : MatchKey(b) # MatchKey(r)} \cup Range(batch)

\* INSERT INTO decks ... ON CONFLICT (id) DO UPDATE SET event_id = ..., player = ...
UpsertDecks(tbl, batch) ==
  {r \in tbl : r.id \notin Ids(Range(batch))} \cup Range(batch)

\* INSERT INTO archetypes ... ON CONFLICT (id) DO UPDATE SET deck_id = ...
UpsertArchetypes(tbl, batch) ==
  {r \in tbl : r.id \notin Ids(Range(batch))} \cup Range(batch)

\* a slice that stops one row short of its end
Slice_OneShort(s, from, size) ==
  SubSeq(s, from + 1, IF from + size < Len(s) THEN from + size - 1 ELSE Len(s))

\* rows.slice(i, i + BATCH_SIZE)
Slice(s, from, size) ==
  SubSeq(s, from + 1, IF from + size < Len(s) THEN from + size ELSE Len(s))

\* SELECT ... FROM standings WHERE event_id IN eventIds ORDER BY event_id, rank
StandingsQuery(u, eventIds) ==
  LET S == {r \in u.standings : r.event_id \in Range(eventIds)}
  IN  OrderBy(S, [r \in S |-> r.event_id * 100 + r.rank])

\* SELECT ... FROM matches WHERE event_id IN eventIds ORDER BY event_id, round, player
MatchesQuery(u, eventIds) ==
  LET S == {r \in u.matches : r.event_id \in Range(eventIds)}
  IN  OrderBy(S, [r \in S |-> r.event_id * 100 + r.round * 10 + NameOrd(r.player)])

\* SELECT ... FROM decks WHERE event_id IN eventIds ORDER BY event_id, player
DecksQuery(u, eventIds) ==
  LET S == {r \in u.decks : r.event_id \in Range(eventIds)}
  IN  OrderBy(S, [r \in S |-> r.event_id * 100 + NameOrd(r.player)])

\* SELECT id FROM decks WHERE event_id IN eventIds
DeckIdsQuery(u, eventIds) == {r.id : r \in {x \in u.decks : x.event_id \in Range(eventIds)}}

\* SELECT ... FROM archetypes WHERE deck_id IN deckIdArray ORDER BY id
ArchetypesQuery(u, eventIds) ==
  LET S == {r \in u.archetypes : r.deck_id \in DeckIdsQuery(u, eventIds)}
  IN  OrderBy(S, [r \in S |-> r.id])

-----------------------------------------------------------------------------
(* Initial databases *)

NoRunVars ==
  /\ localEventIds = {}
  /\ incompleteEventIds = <<>>
  /\ newEvents = <<>>
  /\ allEventIdsToSync = <<>>
  /\ playerNames = <<>>
  /\ playersToSync = <<>>
  /\ rows = <<>>
  /\ i = 0
  /\ batchSize = 0
  /\ stats = ZeroStats

ResetRunVars ==
  /\ localEventIds' = {}
  /\ incompleteEventIds' = <<>>
  /\ newEvents' = <<>>
  /\ allEventIdsToSync' = <<>>
  /\ playerNames' = <<>>
  /\ playersToSync' = <<>>
  /\ rows' = <<>>
  /\ i' = 0
  /\ batchSize' = 0
  /\ stats' = ZeroStats

\* the players row of a name under each id of ids (none when ids is empty)
PlayerRow(ids, name) == {[id |-> x, name |-> name] : x \in ids}

\* A source: two events; Alice and Bob play event 100, Bob plays event 200.  The
\* source may have no players row for a name (or a negative id for it), and may have
\* no standings for event 200.
SourceDb(aliceId, bobId, standings200) ==
  [events     |-> {[id |-> e, date |-> EventDate(e), players |-> <<2>>, v |-> "s"] : e \in EventIdSet},
   players    |-> PlayerRow(aliceId, "Alice") \cup PlayerRow(bobId, "Bob"),
   standings  |-> {[event_id |-> 100, rank |-> 1, player |-> "Alice", v |-> "s"],
                   [event_id |-> 100, rank |-> 2, player |-> "Bob", v |-> "s"]}
                  \cup (IF standings200
                        THEN {[event_id |-> 200, rank |-> 1, player |-> "Bob", v |-> "s"]}
                        ELSE {}),
   matches    |-> {[id |-> 11, event_id |-> 100, round |-> 1, player |-> "Alice", v |-> "s"],
                   [id |-> 12, event_id |-> 200, round |-> 1, player |-> "Bob", v |-> "s"]},
   decks      |-> {[id |-> 5, event_id |-> 100, player |-> "Alice", v |-> "s"],
                   [id |-> 6, event_id |-> 200, player |-> "Bob", v |-> "s"]},
   archetypes |-> {[id |-> 1, deck_id |-> 5, v |-> "s"],
                   [id |-> 2, deck_id |-> 6, v |-> "s"]}]

\* the player count a target event declares: none (NULL), zero, or two
PlayerCount(kind) ==
  CASE kind = "null" -> <<>> [] kind = "zero" -> <<0>> [] OTHER -> <<2>>

\* A target that evolved on its own: event 100 absent, present without dependent rows
\* ("bare"), with a deck only, with a match only, or complete ("full", its deck and
\* archetype carrying ids the source uses for event 200); event 200 absent, bare,
\* declaring zero players ("zero") or no player count ("null"); Alice known under a local id; a local-only player Zed.
TargetDb(e100, e200, alice, zedId) ==
  [events     |-> (IF e100 = "absent" THEN {}
                   ELSE {[id |-> 100, date |-> EventDate(100), players |-> <<2>>, v |-> "t"]})
                  \cup (IF e200 = "absent" THEN {}
                        ELSE {[id |-> 200, date |-> EventDate(200),
                               players |-> PlayerCount(e200), v |-> "t"]}),
   players    |-> (IF alice THEN {[id |-> 9, name |-> "Alice"]} ELSE {})
                  \cup PlayerRow(zedId, "Zed"),
   standings  |-> IF e100 = "full"
                  THEN {[event_id |-> 100, rank |-> 1, player |-> "Alice", v |-> "t"]}
                  ELSE {},
   matches    |-> IF e100 \in {"match", "full"}
                  THEN {[id |-> 31, event_id |-> 100, round |-> 1, player |-> "Alice", v |-> "t"]}
                  ELSE {},
   decks      |-> IF e100 = "deck"
                  THEN {[id |-> 50, event_id |-> 100, player |-> "Alice", v |-> "t"]}
                  ELSE IF e100 = "full"
                  THEN {[id |-> 6, event_id |-> 100, player |-> "Alice", v |-> "t"]}
                  ELSE {},
   archetypes |-> IF e100 = "full" THEN {[id |-> 2, deck_id |-> 6, v |-> "t"]} ELSE {}]

\* the source and the target before the first call
InitDbs ==
  /\ \E aliceId \in {{7}, {-1}, {}}, bobId \in {{8}, {}}, standings200 \in BOOLEAN :
       upstream = SourceDb(aliceId, bobId, standings200)
  /\ \E e100 \in {"absent", "bare", "deck", "match", "full"},
        e200 \in {"absent", "bare", "zero", "null"},
        alice \in BOOLEAN, zedId \in {{}, {7}, {-1}} :
       /\ e100 \in {"deck", "match", "full"} => alice
       /\ local = TargetDb(e100, e200, alice, zedId)

\* the process memory before the first call
InitMemory ==
  /\ runs = 0
  /\ failures = 0
  /\ NoRunVars
  /\ stageLog = <<>>
  /\ lastWrite = [stage |-> None, rows |-> <<>>]
  /\ synthLog = {}
  /\ prevDone = <<>>
  /\ abortedWork = <<>>
  /\ beforeStage = EmptyDb

\* no merge is running: no dump argument, no temporary database
NoMerge == [dump |-> "none", scratch |-> FALSE, tables |-> {}, created |-> FALSE,
            dropAttempted |-> FALSE, restoreFailed |-> FALSE]

\* no second sync process
NoOther == [pc |-> "off", work |-> <<>>, read |-> {}, playerNames |-> <<>>,
            playersToSync |-> <<>>]

InitData ==
  /\ InitDbs
  /\ InitMemory
  /\ merge = NoMerge
  /\ other = NoOther
  /\ reads = {}

Init ==
  /\ InitData
  /\ pc = "idle"

-----------------------------------------------------------------------------
(* sync(): one action per awaited call *)

Running == {"connect", "getLocalEventIds", "getIncompleteEventIds", "getUpstreamEvents",
            "syncPlayers", "insertPlayers", "syncEvents", "syncStandings",
            "insertStandings", "syncMatches", "insertMatches", "syncDecks",
            "insertDecks", "syncArchetypes", "insertArchetypes"}

\* sync() with the Standings stage called before the Players stage
StageAfter_StandingsFirst(stage) ==
  CASE stage = "start"      -> "syncStandings"
    [] stage = "standings"  -> "syncPlayers"
    [] stage = "players"    -> "syncEvents"
    [] stage = "events"     -> "syncMatches"
    [] stage = "matches"    -> "syncDecks"
    [] stage = "decks"      -> "syncArchetypes"
    [] stage = "archetypes" -> "done"

\* the stage sync() runs after the given one ("Sync in order of dependencies")
StageAfter(stage) ==
  CASE stage = "start"      -> "syncPlayers"
    [] stage = "players"    -> "syncEvents"
    [] stage = "events"     -> "syncStandings"
    [] stage = "standings"  -> "syncMatches"
    [] stage = "matches"    -> "syncDecks"
    [] stage = "decks"      -> "syncArchetypes"
    [] stage = "archetypes" -> "done"

\* a write statement committed: what the history records of it
Wrote(stage, batch) ==
  /\ stageLog' = Append(stageLog, stage)
  /\ lastWrite' = [stage |-> stage, rows |-> batch]

\* the process is started (again)
StartSync ==
  /\ pc \in {"idle", "done", "aborted"}
  /\ runs < MaxRuns
  /\ runs' = runs + 1
  /\ pc' = "connect"
  /\ ResetRunVars
  /\ stageLog' = <<>>
  /\ lastWrite' = [stage |-> None, rows |-> <<>>]
  /\ prevDone' = IF pc = "done" THEN <<local>> ELSE <<>>
  /\ abortedWork' = IF pc = "aborted" THEN abortedWork ELSE <<>>
  /\ reads' = {}
  /\ UNCHANGED <<db, merge, other, failures, synthLog, beforeStage>>

\* await upstream`SELECT 1`; await local`SELECT 1`
TestConnections ==
  /\ pc = "connect"
  /\ pc' = "getLocalEventIds"
  /\ UNCHANGED <<db, merge, other, reads, runs, failures, runVars, hist>>

GetLocalEventIds ==
  /\ pc = "getLocalEventIds"
  /\ localEventIds' = LocalEventIdsQuery(local)
  /\ pc' = "getIncompleteEventIds"
  /\ UNCHANGED <<db, merge, other, reads, runs, failures, incompleteEventIds, newEvents, allEventIdsToSync,
                 playerNames, playersToSync, rows, i, batchSize, stats, hist>>

GetIncompleteEventIds ==
  /\ pc = "getIncompleteEventIds"
  /\ incompleteEventIds' = IncompleteEventIdsQuery(local)
  /\ pc' = "getUpstreamEvents"
  /\ UNCHANGED <<db, merge, other, reads, runs, failures, localEventIds, newEvents, allEventIdsToSync,
                 playerNames, playersToSync, rows, i, batchSize, stats, hist>>

\* getUpstreamEvents, the combined worklist, and the early return when it is empty
GetUpstreamEvents ==
  /\ pc = "getUpstreamEvents"
  /\ LET events == UpstreamEventsQuery(upstream, localEventIds)
         all == EventIdsOf(events) \o incompleteEventIds
     IN  /\ newEvents' = events
         /\ allEventIdsToSync' = all
         /\ pc' = IF Len(all) = 0 THEN "done" ELSE StageAfter("start")
  /\ reads' = reads \cup {"start"}
  /\ UNCHANGED <<db, merge, other, runs, failures, localEventIds, incompleteEventIds,
                 playerNames, playersToSync, rows, i, batchSize, stats, hist>>

\* syncPlayers up to the INSERT: the return when there are no event ids, else the
\* three reads and the loop
SyncPlayers ==
  /\ pc = "syncPlayers"
  /\ IF Len(allEventIdsToSync) = 0
     THEN /\ pc' = StageAfter("players")
          /\ UNCHANGED <<playerNames, playersToSync, reads>>
     ELSE /\ \E names \in Orders(ReferencedPlayerNames(upstream, allEventIdsToSync)) :
               LET batch == PlayersToSync(upstream, local, names)
               IN  /\ playerNames' = names
                   /\ playersToSync' = batch
                   /\ pc' = IF Len(batch) > 0 THEN "insertPlayers" ELSE StageAfter("players")
          /\ reads' = reads \cup {"players"}
  /\ stats' = [stats EXCEPT !.players = 0]
  /\ beforeStage' = local
  /\ UNCHANGED <<db, merge, other, runs, failures, localEventIds, incompleteEventIds, newEvents,
                 allEventIdsToSync, rows, i, batchSize,
                 stageLog, lastWrite, synthLog, prevDone, abortedWork>>

\* names of the batch whose id was taken from nextNegativeId
SynthesizedIn(batch) ==
  {p \in Range(batch) :
     \/ p.name \notin PlayerNamesOf(upstream.players)
     \/ \E q \in upstream.players : q.name = p.name /\ q.id # p.id}

\* the INSERT of syncPlayers; a unique violation rejects it and the run exits 1
InsertPlayersStmt ==
  /\ pc = "insertPlayers"
  /\ LET res == InsertPlayers(local.players, playersToSync)
     IN  IF res.ok
         THEN /\ local' = [local EXCEPT !.players = res.tbl]
              /\ stats' = [stats EXCEPT !.players = Len(playersToSync)]
              /\ synthLog' = synthLog \cup SynthesizedIn(playersToSync)
              /\ Wrote("players", playersToSync)
              /\ pc' = StageAfter("players")
              /\ UNCHANGED <<abortedWork, localEventIds, incompleteEventIds, newEvents,
                             allEventIdsToSync, playerNames, playersToSync, rows, i,
                             batchSize>>
         ELSE /\ pc' = "aborted"
              /\ abortedWork' = <<Range(allEventIdsToSync), FALSE>>
              /\ ResetRunVars
              /\ UNCHANGED <<local, synthLog, stageLog, lastWrite>>
  /\ UNCHANGED <<upstream, merge, other, reads, runs, failures, prevDone, beforeStage>>

\* "only sync new events": syncEvents(newEvents) when there are any
SyncEvents ==
  /\ pc = "syncEvents"
  /\ IF Len(newEvents) > 0
     THEN /\ local' = [local EXCEPT !.events = UpsertEvents(local.events, newEvents)]
          /\ stats' = [stats EXCEPT !.events = Len(newEvents)]
          /\ Wrote("events", newEvents)
     ELSE UNCHANGED <<local, stats, stageLog, lastWrite>>
  /\ pc' = StageAfter("events")
  /\ beforeStage' = local
  /\ UNCHANGED <<upstream, merge, other, reads, runs, failures, localEventIds, incompleteEventIds, newEvents,
                 allEventIdsToSync, playerNames, playersToSync, rows, i, batchSize,
                 synthLog, prevDone, abortedWork>>

\* a batched stage that sends its SELECT whatever the event ids
Fetch_Unguarded(here, loop, stage, result, size) ==
  /\ pc = here
  /\ rows' = result
  /\ i' = 0
  /\ batchSize' = size
  /\ beforeStage' = local
  /\ pc' = IF Len(result) = 0 THEN StageAfter(stage) ELSE loop
  /\ reads' = reads \cup {stage}
  /\ UNCHANGED <<db, merge, other, runs, failures, localEventIds, incompleteEventIds, newEvents,
                 allEventIdsToSync, playerNames, playersToSync, stats,
                 stageLog, lastWrite, synthLog, prevDone, abortedWork>>

\* the start of a batched stage: the return when there are no event ids, else the
\* SELECT; an empty result ends the stage with count 0
Fetch(here, loop, stage, result, size) ==
  /\ pc = here
  /\ i' = 0
  /\ beforeStage' = local
  /\ IF Len(allEventIdsToSync) = 0
     THEN /\ pc' = StageAfter(stage)
          /\ UNCHANGED <<rows, batchSize, reads>>
     ELSE /\ rows' = result
          /\ batchSize' = size
          /\ pc' = IF Len(result) = 0 THEN StageAfter(stage) ELSE loop
          /\ reads' = reads \cup {stage}
  /\ UNCHANGED <<db, merge, other, runs, failures, localEventIds, incompleteEventIds, newEvents,
                 allEventIdsToSync, playerNames, playersToSync, stats,
                 stageLog, lastWrite, synthLog, prevDone, abortedWork>>

\* one iteration of a stage's batch loop; after the last one the stage returns its count
LoopStep(loop, stage) ==
  /\ pc = loop
  /\ i' = i + batchSize
  /\ Wrote(stage, Slice(rows, i, batchSize))
  /\ IF i + batchSize < Len(rows)
     THEN UNCHANGED <<pc, stats>>
     ELSE /\ pc' = StageAfter(stage)
          /\ stats' = [stats EXCEPT ![stage] = Len(rows)]
  /\ UNCHANGED <<upstream, merge, other, reads, runs, failures, localEventIds, incompleteEventIds, newEvents,
                 allEventIdsToSync, playerNames, playersToSync, rows, batchSize,
                 synthLog, prevDone, abortedWork, beforeStage>>

SyncStandings ==
  Fetch("syncStandings", "insertStandings", "standings",
        StandingsQuery(upstream, allEventIdsToSync), Batch(BATCH_SIZE_STANDINGS))

InsertStandingsBatch ==
  /\ LoopStep("insertStandings", "standings")
  /\ local' = [local EXCEPT !.standings =
                 UpsertStandings(@, Slice(rows, i, batchSize))]

SyncMatches ==
  Fetch("syncMatches", "insertMatches", "matches",
        MatchesQuery(upstream, allEventIdsToSync), Batch(BATCH_SIZE_MATCHES))

InsertMatchesBatch ==
  /\ LoopStep("insertMatches", "matches")
  /\ local' = [local EXCEPT !.matches =
                 UpsertMatches(@, Slice(rows, i, batchSize))]

SyncDecks ==
  Fetch("syncDecks", "insertDecks", "decks",
        DecksQuery(upstream, allEventIdsToSync), Batch(BATCH_SIZE_DECKS))

InsertDecksBatch ==
  /\ LoopStep("insertDecks", "decks")
  /\ local' = [local EXCEPT !.decks =
                 UpsertDecks(@, Slice(rows, i, batchSize))]

SyncArchetypes ==
  Fetch("syncArchetypes", "insertArchetypes", "archetypes",
        ArchetypesQuery(upstream, allEventIdsToSync), Batch(BATCH_SIZE_ARCHETYPES))

InsertArchetypesBatch ==
  /\ LoopStep("insertArchetypes", "archetypes")
  /\ local' = [local EXCEPT !.archetypes =
                 UpsertArchetypes(@, Slice(rows, i, batchSize))]

\* a rejected statement that also undoes the chunks its stage had committed
StatementFails_RollsBack ==
  /\ pc \in Running
  /\ failures < MaxFailures
  /\ failures' = failures + 1
  /\ pc' = "aborted"
  /\ abortedWork' = <<Range(allEventIdsToSync), FALSE>>
  /\ ResetRunVars
  /\ local' = beforeStage
  /\ UNCHANGED <<upstream, merge, other, reads, runs, stageLog, lastWrite, synthLog, prevDone, beforeStage>>

\* a connection test whose rejection is not thrown: the run goes on
StatementFails_GoesOn ==
  /\ pc \in Running
  /\ failures < MaxFailures
  /\ failures' = failures + 1
  /\ pc' = IF pc = "connect" THEN "getLocalEventIds" ELSE "aborted"
  /\ abortedWork' = <<Range(allEventIdsToSync), FALSE>>
  /\ IF pc = "connect"
     THEN UNCHANGED runVars
     ELSE ResetRunVars
  /\ UNCHANGED <<db, merge, other, reads, runs, stageLog, lastWrite, synthLog, prevDone, beforeStage>>

\* an awaited statement rejects (connection lost, server error): catch, exit(1);
\* abortedWork remembers whether it was one of the two connection tests
StatementFails ==
  /\ pc \in Running
  /\ failures < MaxFailures
  /\ failures' = failures + 1
  /\ pc' = "aborted"
  /\ abortedWork' = <<Range(allEventIdsToSync), pc = "connect">>
  /\ ResetRunVars
  /\ UNCHANGED <<db, merge, other, reads, runs, stageLog, lastWrite, synthLog, prevDone, beforeStage>>

Next ==
  \/ StartSync
  \/ TestConnections
  \/ GetLocalEventIds
  \/ GetIncompleteEventIds
  \/ GetUpstreamEvents
  \/ SyncPlayers
  \/ InsertPlayersStmt
  \/ SyncEvents
  \/ SyncStandings
  \/ InsertStandingsBatch
  \/ SyncMatches
  \/ InsertMatchesBatch
  \/ SyncDecks
  \/ InsertDecksBatch
  \/ SyncArchetypes
  \/ InsertArchetypesBatch
  \/ StatementFails

Spec == Init /\ [][Next]_vars

-----------------------------------------------------------------------------
(* The write statements on their own: each of the six statements of the      *)
(* pipeline applied to a record set and a chunk size drawn from bounded sets *)

\* every sequence without repetition of rows of the pool
RecordSets(pool) == UNION {Orders(S) : S \in SUBSET pool}

PlayerPool == {[id |-> 7, name |-> "Alice"], [id |-> 8, name |-> "Bob"]}
EventPool == upstream.events
StandingPool == upstream.standings
MatchPool ==
  upstream.matches
    \cup {[id |-> 13, event_id |-> 100, round |-> 2, player |-> "Bob", v |-> "s"]}
DeckPool == upstream.decks
ArchetypePool == upstream.archetypes

InitWriter ==
  /\ InitData
  /\ pc = "writer"

\* syncPlayers reaches its INSERT with a batch
WriterPlayers ==
  /\ pc = "writer"
  /\ \E batch \in RecordSets(PlayerPool) :
       /\ Len(batch) > 0
       /\ playersToSync' = batch
  /\ pc' = "insertPlayers"
  /\ beforeStage' = local
  /\ UNCHANGED <<db, merge, other, reads, runs, failures, localEventIds, incompleteEventIds, newEvents,
                 allEventIdsToSync, playerNames, rows, i, batchSize, stats,
                 stageLog, lastWrite, synthLog, prevDone, abortedWork>>

\* syncEvents is called with a record set
WriterEvents ==
  /\ pc = "writer"
  /\ \E batch \in RecordSets(EventPool) : newEvents' = batch
  /\ pc' = "syncEvents"
  /\ UNCHANGED <<db, merge, other, reads, runs, failures, localEventIds, incompleteEventIds,
                 allEventIdsToSync, playerNames, playersToSync, rows, i, batchSize,
                 stats, hist>>

\* a batched stage has fetched its record set and enters its loop with a BATCH_SIZE
WriterFetch(loop, stage, pool) ==
  /\ pc = "writer"
  /\ \E result \in RecordSets(pool), size \in 1..MaxChunk :
       /\ rows' = result
       /\ batchSize' = size
       /\ pc' = IF Len(result) = 0 THEN StageAfter(stage) ELSE loop
  /\ i' = 0
  /\ beforeStage' = local
  /\ UNCHANGED <<db, merge, other, reads, runs, failures, localEventIds, incompleteEventIds, newEvents,
                 allEventIdsToSync, playerNames, playersToSync, stats,
                 stageLog, lastWrite, synthLog, prevDone, abortedWork>>

WriterStandings == WriterFetch("insertStandings", "standings", StandingPool)
WriterMatches == WriterFetch("insertMatches", "matches", MatchPool)
WriterDecks == WriterFetch("insertDecks", "decks", DeckPool)
WriterArchetypes == WriterFetch("insertArchetypes", "archetypes", ArchetypePool)

NextWriter ==
  \/ WriterPlayers
  \/ InsertPlayersStmt
  \/ WriterEvents
  \/ SyncEvents
  \/ WriterStandings
  \/ InsertStandingsBatch
  \/ WriterMatches
  \/ InsertMatchesBatch
  \/ WriterDecks
  \/ InsertDecksBatch
  \/ WriterArchetypes
  \/ InsertArchetypesBatch

SpecWriter == InitWriter /\ [][NextWriter]_vars

-----------------------------------------------------------------------------
(* merge-dump: mergeDatabases().  `upstream` is the temporary database the   *)
(* dump was restored into, `local` the target; each stage selects the rows   *)
(* of the temporary database that the target lacks and inserts them one by   *)
(* one.                                                                      *)

MergeStages == {"players", "events", "decks", "matches", "standings", "archetypes"}

\* the loops of mergeDatabases whose INSERT stands in a try with an empty catch
Caught == {"decks", "matches", "standings", "archetypes"}

QueryPc(stage) ==
  CASE stage = "players"    -> "mergePlayers"
    [] stage = "events"     -> "mergeEvents"
    [] stage = "decks"      -> "mergeDecks"
    [] stage = "matches"    -> "mergeMatches"
    [] stage = "standings"  -> "mergeStandings"
    [] stage = "archetypes" -> "mergeArchetypes"

LoopPc(stage) ==
  CASE stage = "players"    -> "mergeInsertPlayers"
    [] stage = "events"     -> "mergeInsertEvents"
    [] stage = "decks"      -> "mergeInsertDecks"
    [] stage = "matches"    -> "mergeInsertMatches"
    [] stage = "standings"  -> "mergeInsertStandings"
    [] stage = "archetypes" -> "mergeInsertArchetypes"

\* mergeDatabases with the decks merged last
MergeAfter_DecksLast(stage) ==
  CASE stage = "players"    -> QueryPc("events")
    [] stage = "events"     -> QueryPc("matches")
    [] stage = "matches"    -> QueryPc("standings")
    [] stage = "standings"  -> QueryPc("archetypes")
    [] stage = "archetypes" -> QueryPc("decks")
    [] stage = "decks"      -> "dropTemp"

\* the position after a stage of mergeDatabases: "1. Merge Players" ... "6. Merge
\* Archetypes", then the return
MergeAfter(stage) ==
  CASE stage = "players"    -> QueryPc("events")
    [] stage = "events"     -> QueryPc("decks")
    [] stage = "decks"      -> QueryPc("matches")
    [] stage = "matches"    -> QueryPc("standings")
    [] stage = "standings"  -> QueryPc("archetypes")
    [] stage = "archetypes" -> "dropTemp"

\* archetypes.deck_id IS NULL (the ids of decks are positive)
NoDeck == 0

\* the SELECT of a stage without a filter
MergeQueryResult_All(stage, t, d) == t[stage]

\* the SELECT of a stage with the filter on the key alone
MergeQueryResult_KeyOnly(stage, t, d) ==
  {r \in t[stage] :
     CASE stage = "matches"   -> \A q \in d.matches : MatchKey(q) # MatchKey(r)
       [] stage = "standings" -> \A q \in d.standings : StandingKey(q) # StandingKey(r)
       [] OTHER               -> r.id \notin Ids(d[stage])}

\* the SELECT of a stage: rows of the temporary database t filtered through dblink
\* against the target d
MergeQueryResult(stage, t, d) ==
  CASE stage = "players" ->
         {r \in t.players : r.id \notin Ids(d.players)}
    [] stage = "events" ->
         {r \in t.events : r.id \notin Ids(d.events)}
    [] stage = "decks" ->
         {r \in t.decks : /\ r.id \notin Ids(d.decks)
                          /\ r.player \in PlayerNamesOf(d.players)}
    [] stage = "matches" ->
         {r \in t.matches : /\ \A q \in d.matches : MatchKey(q) # MatchKey(r)
                            /\ r.player \in PlayerNamesOf(d.players)
                            /\ r.event_id \in Ids(d.events)}
    [] stage = "standings" ->
         {r \in t.standings : /\ \A q \in d.standings : StandingKey(q) # StandingKey(r)
                              /\ r.player \in PlayerNamesOf(d.players)
                              /\ r.event_id \in Ids(d.events)}
    [] stage = "archetypes" ->
         {r \in t.archetypes : /\ r.id \notin Ids(d.archetypes)
                               /\ (r.deck_id = NoDeck \/ r.deck_id \in Ids(d.decks))}

\* the row meets the arbiter of the statement's ON CONFLICT ... DO NOTHING
HitsArbiter(stage, tbl, r) ==
  CASE stage = "matches"   -> \E q \in tbl : MatchKey(q) = MatchKey(r)
    [] stage = "standings" -> \E q \in tbl : StandingKey(q) = StandingKey(r)
    [] OTHER               -> r.id \in Ids(tbl)

\* the row violates a constraint of the target that is not the statement's arbiter:
\* the unique name of a player, the player and the event a deck refers to
ViolatesConstraint(stage, d, r) ==
  CASE stage = "players" -> r.name \in PlayerNamesOf(d.players)
    [] stage = "decks"   -> \/ r.player \notin PlayerNamesOf(d.players)
                            \/ r.event_id \notin Ids(d.events)
    [] OTHER             -> FALSE

\* an INSERT that replaces the rows of the target the new row collides with
MergeInsert_Overwrite(stage, d, r) ==
  [ok |-> TRUE,
   db |-> [d EXCEPT ![stage] =
             {q \in @ : /\ ~ HitsArbiter(stage, {q}, r)
                         /\ ~ (stage = "players" /\ q.name = r.name)} \cup {r}]]

\* INSERT INTO <stage> ... VALUES (one row) ON CONFLICT (...) DO NOTHING
MergeInsert(stage, d, r) ==
  IF HitsArbiter(stage, d[stage], r) THEN [ok |-> TRUE, db |-> d]
  ELSE IF ViolatesConstraint(stage, d, r) THEN [ok |-> FALSE, db |-> d]
  ELSE [ok |-> TRUE, db |-> [d EXCEPT ![stage] = @ \cup {r}]]

\* the dump file given to merge-dump: no argument; a plain SQL dump or a custom
\* archive of the data; an archive whose restore loses tables; a corrupt archive; an
\* archive without tables; an archive of unrelated tables
Dumps == {"none", "plain", "custom", "lossy", "corrupt", "empty", "foreign"}

\* the words of a chunk of pg_restore's stderr that the code looks for
Words(msg) ==
  CASE msg = "roleMissing"     -> {"role", "does not exist"}
    [] msg = "relationMissing" -> {"does not exist"}
    [] msg = "errorsIgnored"   -> {"WARNING"}
    [] OTHER                   -> {}

\* what pg_restore can do with the dump: exit code, chunks written to stderr, tables
\* the temporary database holds afterwards, and whether the restore really failed
RestoreOutcomes(dump) ==
  CASE dump = "plain" ->
         {[code |-> 1, stderr |-> {"textFormatDump"}, tables |-> {}, failed |-> TRUE]}
    [] dump = "custom" ->
         {[code |-> 0, stderr |-> {}, tables |-> MergeStages, failed |-> FALSE],
          [code |-> 1, stderr |-> {"roleMissing", "errorsIgnored"},
           tables |-> MergeStages, failed |-> FALSE]}
    [] dump = "lossy" ->
         {[code |-> 1, stderr |-> {"relationMissing", "errorsIgnored"},
           tables |-> {"players"}, failed |-> TRUE]}
    [] dump = "corrupt" ->
         {[code |-> 1, stderr |-> {"unexpectedEndOfFile"}, tables |-> {}, failed |-> TRUE]}
    [] dump = "empty" ->
         {[code |-> 0, stderr |-> {}, tables |-> {}, failed |-> FALSE]}
    [] dump = "foreign" ->
         {[code |-> 0, stderr |-> {}, tables |-> {"other"}, failed |-> FALSE]}

\* "Filter out expected warnings": the chunks added to stderr
KeptStderr(chunks) ==
  {m \in chunks :
     Words(m) \cap {"role", "does not exist", "already exists", "extension"} = {}}

\* proc.on('close'): code !== 0 && stderr && !stderr.includes('WARNING')
RestoreRejects(o) ==
  /\ o.code # 0
  /\ KeptStderr(o.stderr) # {}
  /\ \A m \in KeptStderr(o.stderr) : "WARNING" \notin Words(m)

\* A restored dump: the source of the sync, possibly with a deck whose event the dump
\* does not hold, an archetype of that deck and an archetype of no deck
SnapshotDb(aliceId, bobId, orphan) ==
  [SourceDb(aliceId, bobId, TRUE) EXCEPT
     !.decks = @ \cup (IF orphan
                       THEN {[id |-> 8, event_id |-> 300, player |-> "Alice", v |-> "s"]}
                       ELSE {}),
     !.archetypes = @ \cup (IF orphan
                            THEN {[id |-> 3, deck_id |-> NoDeck, v |-> "s"],
                                  [id |-> 4, deck_id |-> 8, v |-> "s"]}
                            ELSE {})]

InitMerge ==
  /\ \E aliceId \in {{7}, {9}, {}}, bobId \in {{8}, {}}, orphan \in BOOLEAN :
       upstream = SnapshotDb(aliceId, bobId, orphan)
  /\ \E e100 \in {"absent", "bare", "deck", "match", "full"},
        e200 \in {"absent", "bare", "zero", "null"},
        alice \in BOOLEAN, zedId \in {{}, {7}, {-1}} :
       /\ e100 \in {"deck", "match", "full"} => alice
       /\ local = TargetDb(e100, e200, alice, zedId)
  /\ InitMemory
  /\ \E dump \in Dumps, leftover \in BOOLEAN :
       merge = [NoMerge EXCEPT !.dump = dump, !.scratch = leftover]
  /\ other = NoOther
  /\ reads = {}
  /\ pc = "mergeMain"

\* the position after the current row of a loop
AfterRow(stage) == IF i + 1 < Len(rows) THEN LoopPc(stage) ELSE MergeAfter(stage)

\* a catch that exits without trying to drop the temporary database
MergeAborts_NoCleanup ==
  /\ pc' = "aborted"
  /\ ResetRunVars
  /\ UNCHANGED <<db, merge, other, reads, runs, stageLog, lastWrite, synthLog, prevDone,
                 abortedWork, beforeStage>>

\* main()'s catch: "Merge failed", the attempt to drop the temporary database (its
\* own errors ignored), process.exit(1)
MergeAborts ==
  /\ pc' = "aborted"
  /\ \E dropped \in BOOLEAN :
       merge' = [merge EXCEPT !.dropAttempted = TRUE,
                              !.scratch = IF dropped THEN FALSE ELSE @]
  /\ ResetRunVars
  /\ UNCHANGED <<db, other, reads, runs, stageLog, lastWrite, synthLog, prevDone, abortedWork,
                 beforeStage>>

\* the steps of main() before and after mergeDatabases()
MainSteps == {"createTemp", "enableDblink", "importDump", "verify", "dropTemp"}

\* a step of main() that leaves the run's memory and the databases alone
MainStep(here, next) ==
  /\ pc = here
  /\ pc' = next
  /\ UNCHANGED <<db, other, reads, runs, failures, runVars, hist>>

\* if (!dumpFile) { usage; process.exit(1) }
MergeMain ==
  /\ MainStep("mergeMain", IF merge.dump = "none" THEN "aborted" ELSE "createTemp")
  /\ UNCHANGED merge

\* Step 1: DROP DATABASE IF EXISTS, CREATE DATABASE
CreateTemp ==
  /\ MainStep("createTemp", "enableDblink")
  /\ merge' = [merge EXCEPT !.scratch = TRUE, !.created = TRUE, !.tables = {}]

\* Step 2: CREATE EXTENSION IF NOT EXISTS dblink in both databases
EnableDblink ==
  /\ MainStep("enableDblink", "importDump")
  /\ UNCHANGED merge

\* Step 3: importDumpToTemp, always through pg_restore
ImportDump ==
  /\ pc = "importDump"
  /\ \E o \in RestoreOutcomes(merge.dump) :
       IF RestoreRejects(o)
       THEN MergeAborts
       ELSE /\ pc' = "verify"
            /\ merge' = [merge EXCEPT !.tables = o.tables, !.restoreFailed = o.failed]
            /\ UNCHANGED <<db, other, reads, runs, runVars, hist>>
  /\ UNCHANGED failures

\* Step 3.5: the tables of the temporary database; none is an error
VerifySchema ==
  /\ pc = "verify"
  /\ IF merge.tables = {}
     THEN MergeAborts
     ELSE /\ pc' = QueryPc("players")
          /\ UNCHANGED <<db, merge, other, reads, runs, runVars, hist>>
  /\ UNCHANGED failures

\* Step 5: DROP DATABASE IF EXISTS, then the summary; the process ends with status 0
DropTemp ==
  /\ MainStep("dropTemp", "mergeDone")
  /\ merge' = [merge EXCEPT !.scratch = FALSE, !.dropAttempted = TRUE]

\* an awaited step of main() rejects (server unreachable, docker exec fails)
MainStepFails ==
  /\ pc \in MainSteps
  /\ failures < MaxFailures
  /\ failures' = failures + 1
  /\ MergeAborts

\* a SELECT that answers whatever tables the temporary database holds
MergeQuery_AnyTables(stage) ==
  /\ pc = QueryPc(stage)
  /\ \E result \in Orders(MergeQueryResult(stage, upstream, local)) :
       /\ rows' = result
       /\ pc' = IF Len(result) = 0 THEN MergeAfter(stage) ELSE LoopPc(stage)
  /\ i' = 0
  /\ beforeStage' = local
  /\ UNCHANGED <<db, merge, other, reads, runs, failures, localEventIds, incompleteEventIds,
                 newEvents, allEventIdsToSync, playerNames, playersToSync,
                 batchSize, stats, stageLog, lastWrite, synthLog, prevDone,
                 abortedWork>>

\* const newRows = await sqlTemp`SELECT ...`, returned in any order; the SELECT
\* rejects when the temporary database has no such table
MergeQuery(stage) ==
  /\ pc = QueryPc(stage)
  /\ IF stage \notin merge.tables
     THEN MergeAborts
     ELSE /\ \E result \in Orders(MergeQueryResult(stage, upstream, local)) :
               /\ rows' = result
               /\ pc' = IF Len(result) = 0 THEN MergeAfter(stage) ELSE LoopPc(stage)
          /\ i' = 0
          /\ beforeStage' = local
          /\ UNCHANGED <<db, merge, other, reads, runs, localEventIds, incompleteEventIds,
                         newEvents, allEventIdsToSync, playerNames, playersToSync,
                         batchSize, stats, stageLog, lastWrite, synthLog, prevDone,
                         abortedWork>>
  /\ UNCHANGED failures

\* the row is left out: the catch of the loop body, then the next iteration
MergeSkipsRow(stage) ==
  /\ i' = i + 1
  /\ pc' = AfterRow(stage)
  /\ UNCHANGED <<db, merge, other, reads, runs, localEventIds, incompleteEventIds, newEvents,
                 allEventIdsToSync, playerNames, playersToSync, rows, batchSize, stats,
                 hist>>

\* one iteration of a stage's loop: the INSERT of rows[i]; stats++ when it resolves;
\* when it rejects, the catch of the loop body if there is one, else main()'s catch
MergeInsertRow(stage) ==
  /\ pc = LoopPc(stage)
  /\ LET res == MergeInsert(stage, local, rows[i + 1])
     IN  IF res.ok
         THEN /\ local' = res.db
              /\ stats' = [stats EXCEPT ![stage] = @ + 1]
              /\ i' = i + 1
              /\ pc' = AfterRow(stage)
              /\ Wrote(stage, <<rows[i + 1]>>)
              /\ UNCHANGED <<upstream, merge, other, reads, runs, localEventIds, incompleteEventIds,
                             newEvents, allEventIdsToSync, playerNames, playersToSync,
                             rows, batchSize, synthLog, prevDone, abortedWork,
                             beforeStage>>
         ELSE IF stage \in Caught THEN MergeSkipsRow(stage) ELSE MergeAborts
  /\ UNCHANGED failures

\* the INSERT of rows[i] rejects for another reason (connection lost, server error)
MergeInsertFails(stage) ==
  /\ pc = LoopPc(stage)
  /\ failures < MaxFailures
  /\ failures' = failures + 1
  /\ IF stage \in Caught THEN MergeSkipsRow(stage) ELSE MergeAborts

\* the SELECT of a stage rejects
MergeQueryFails(stage) ==
  /\ pc = QueryPc(stage)
  /\ failures < MaxFailures
  /\ failures' = failures + 1
  /\ MergeAborts

MergePlayers == MergeQuery("players")
MergeInsertPlayer == MergeInsertRow("players")
MergeEvents == MergeQuery("events")
MergeInsertEvent == MergeInsertRow("events")
MergeDecks == MergeQuery("decks")
MergeInsertDeck == MergeInsertRow("decks")
MergeMatches == MergeQuery("matches")
MergeInsertMatch == MergeInsertRow("matches")
MergeStandings == MergeQuery("standings")
MergeInsertStanding == MergeInsertRow("standings")
MergeArchetypes == MergeQuery("archetypes")
MergeInsertArchetype == MergeInsertRow("archetypes")
MergeStatementFails ==
  \E stage \in MergeStages : MergeInsertFails(stage) \/ MergeQueryFails(stage)

NextMerge ==
  \/ MergeMain
  \/ CreateTemp
  \/ EnableDblink
  \/ ImportDump
  \/ VerifySchema
  \/ DropTemp
  \/ MainStepFails
  \/ MergePlayers
  \/ MergeInsertPlayer
  \/ MergeEvents
  \/ MergeInsertEvent
  \/ MergeDecks
  \/ MergeInsertDeck
  \/ MergeMatches
  \/ MergeInsertMatch
  \/ MergeStandings
  \/ MergeInsertStanding
  \/ MergeArchetypes
  \/ MergeInsertArchetype
  \/ MergeStatementFails

SpecMerge == InitMerge /\ [][NextMerge]_vars

\* merge-dump is run again on the same dump file after a run that completed with
\* every statement answered; the history keeps the target and the summary of the
\* first run
MergeAgain ==
  /\ pc = "mergeDone"
  /\ runs = 0
  /\ failures = 0
  /\ runs' = 1
  /\ pc' = "mergeMain"
  /\ prevDone' = <<local, stats>>
  /\ merge' = [NoMerge EXCEPT !.dump = merge.dump]
  /\ ResetRunVars
  /\ stageLog' = <<>>
  /\ UNCHANGED <<db, other, reads, failures, lastWrite, synthLog, abortedWork, beforeStage>>

NextMergeTwice == NextMerge \/ MergeAgain

SpecMergeTwice == InitMerge /\ [][NextMergeTwice]_vars

-----------------------------------------------------------------------------
(* Two sync processes against the same source and target, each followed       *)
(* through its Players stage.  The second process keeps its memory in `other`. *)

\* the second process starts: the connection tests and the three worklist queries
OtherStart ==
  /\ other.pc = "off"
  /\ LET events == UpstreamEventsQuery(upstream, LocalEventIdsQuery(local))
         all == EventIdsOf(events) \o IncompleteEventIdsQuery(local)
     IN  other' = [other EXCEPT !.work = all,
                                !.pc = IF Len(all) = 0 THEN "done" ELSE "syncPlayers"]
  /\ UNCHANGED <<db, pc, runs, failures, runVars, hist, merge, reads>>

\* syncPlayers of the second process up to its INSERT
OtherSyncPlayers ==
  /\ other.pc = "syncPlayers"
  /\ \E names \in Orders(ReferencedPlayerNames(upstream, other.work)) :
       LET batch == PlayersToSync(upstream, local, names)
       IN  other' = [other EXCEPT !.read = local.players,
                                  !.playerNames = names,
                                  !.playersToSync = batch,
                                  !.pc = IF Len(batch) > 0 THEN "insertPlayers" ELSE "done"]
  /\ UNCHANGED <<db, pc, runs, failures, runVars, hist, merge, reads>>

\* the INSERT of syncPlayers of the second process
OtherInsertPlayers ==
  /\ other.pc = "insertPlayers"
  /\ LET res == InsertPlayers(local.players, other.playersToSync)
     IN  IF res.ok
         THEN /\ local' = [local EXCEPT !.players = res.tbl]
              /\ synthLog' = synthLog \cup SynthesizedIn(other.playersToSync)
              /\ other' = [other EXCEPT !.pc = "done"]
         ELSE /\ other' = [other EXCEPT !.pc = "aborted"]
              /\ UNCHANGED <<local, synthLog>>
  /\ UNCHANGED <<upstream, pc, runs, failures, runVars, stageLog, lastWrite, prevDone,
                 abortedWork, beforeStage, merge, reads>>

NextConcurrent ==
  \/ StartSync
  \/ TestConnections
  \/ GetLocalEventIds
  \/ GetIncompleteEventIds
  \/ GetUpstreamEvents
  \/ SyncPlayers
  \/ InsertPlayersStmt
  \/ OtherStart
  \/ OtherSyncPlayers
  \/ OtherInsertPlayers

SpecConcurrent == Init /\ [][NextConcurrent]_vars

-----------------------------------------------------------------------------
(* sync-upstream against a source that changes during the run, and a target   *)
(* that enforces the references of standings, matches and decks to players    *)
(* (by name) and events.  With a fixed source no write of the sync meets these *)
(* references, which is why Spec leaves them out.                             *)

\* a target without references between its tables
TargetRejects_Nothing(stage, d, batch) == FALSE

\* the target rejects the statement: a row names a player or an event it lacks
TargetRejects(stage, d, batch) ==
  /\ stage \in {"standings", "matches", "decks"}
  /\ \E r \in Range(batch) :
       \/ r.player \notin PlayerNamesOf(d.players)
       \/ r.event_id \notin Ids(d.events)

\* the rows the source can gain for an event: a standing, a match or a deck of a
\* player it did not name before
NewSourceRows(e) ==
  {[stage |-> "standings", row |-> [event_id |-> e, rank |-> 3, player |-> "Carl", v |-> "s"]],
   [stage |-> "matches",
    row |-> [id |-> 13, event_id |-> e, round |-> 1, player |-> "Carl", v |-> "s"]],
   [stage |-> "decks", row |-> [id |-> 9, event_id |-> e, player |-> "Carl", v |-> "s"]]}

\* the source system adds a row for an event of the worklist once the Players stage
\* of the run has read the source
SourceGains ==
  /\ pc \in Running
  /\ "players" \in reads
  /\ \A stage \in {"standings", "matches", "decks"} :
       \A r \in upstream[stage] : r.player # "Carl"
  /\ \E e \in Range(allEventIdsToSync) : \E n \in NewSourceRows(e) :
       upstream' = [upstream EXCEPT ![n.stage] = @ \cup {n.row}]
  /\ UNCHANGED <<local, pc, runs, failures, runVars, hist, merge, other, reads>>

\* the INSERT rejects on a reference: catch of sync(), exit(1)
RejectedByTarget ==
  /\ pc' = "aborted"
  /\ abortedWork' = <<Range(allEventIdsToSync), FALSE>>
  /\ ResetRunVars
  /\ UNCHANGED <<db, merge, other, reads, runs, failures, stageLog, lastWrite, synthLog,
                 prevDone, beforeStage>>

DriftInsertStandings ==
  /\ pc = "insertStandings"
  /\ IF TargetRejects("standings", local, Slice(rows, i, batchSize))
     THEN RejectedByTarget
     ELSE InsertStandingsBatch /\ UNCHANGED failures

DriftInsertMatches ==
  /\ pc = "insertMatches"
  /\ IF TargetRejects("matches", local, Slice(rows, i, batchSize))
     THEN RejectedByTarget
     ELSE InsertMatchesBatch /\ UNCHANGED failures

DriftInsertDecks ==
  /\ pc = "insertDecks"
  /\ IF TargetRejects("decks", local, Slice(rows, i, batchSize))
     THEN RejectedByTarget
     ELSE InsertDecksBatch /\ UNCHANGED failures

NextDrift ==
  \/ StartSync
  \/ TestConnections
  \/ GetLocalEventIds
  \/ GetIncompleteEventIds
  \/ GetUpstreamEvents
  \/ SyncPlayers
  \/ InsertPlayersStmt
  \/ SyncEvents
  \/ SyncStandings
  \/ DriftInsertStandings
  \/ SyncMatches
  \/ DriftInsertMatches
  \/ SyncDecks
  \/ DriftInsertDecks
  \/ SyncArchetypes
  \/ InsertArchetypesBatch
  \/ SourceGains

SpecDrift == Init /\ [][NextDrift]_vars

-----------------------------------------------------------------------------
(* The six stages of sync-upstream called one after the other on drawn inputs: *)
(* a list of event ids, possibly empty, and new events among them.            *)

InitStage ==
  /\ InitDbs
  /\ runs = 1
  /\ failures = 0
  /\ \E ids \in SUBSET EventIdSet :
       /\ allEventIdsToSync \in Orders(ids)
       /\ \E events \in SUBSET {e \in upstream.events : e.id \in ids} :
            newEvents \in Orders(events)
  /\ localEventIds = {}
  /\ incompleteEventIds = <<>>
  /\ playerNames = <<>>
  /\ playersToSync = <<>>
  /\ rows = <<>>
  /\ i = 0
  /\ batchSize = 0
  /\ stats = ZeroStats
  /\ stageLog = <<>>
  /\ lastWrite = [stage |-> None, rows |-> <<>>]
  /\ synthLog = {}
  /\ prevDone = <<>>
  /\ abortedWork = <<>>
  /\ beforeStage = EmptyDb
  /\ merge = NoMerge
  /\ other = NoOther
  /\ reads = {}
  /\ pc = "syncPlayers"

NextStage ==
  \/ SyncPlayers
  \/ InsertPlayersStmt
  \/ SyncEvents
  \/ SyncStandings
  \/ InsertStandingsBatch
  \/ SyncMatches
  \/ InsertMatchesBatch
  \/ SyncDecks
  \/ InsertDecksBatch
  \/ SyncArchetypes
  \/ InsertArchetypesBatch

SpecStage == InitStage /\ [][NextStage]_vars

-----------------------------------------------------------------------------
(* Both programs: a process is either sync-upstream or merge-dump *)

InitBoth == Init \/ InitMerge

\* a sync run starts in a sync process only: one that is idle or has run before
SyncProcess == pc = "idle" \/ runs > 0

NextBoth == (SyncProcess /\ Next) \/ NextMerge

SpecBoth == InitBoth /\ [][NextBoth]_vars

\* the program the process runs
Program == IF SyncProcess THEN "sync" ELSE "merge"

\* catch (err) { console.error(...); [attempt to drop the temporary database;]
\* process.exit(1); }
CatchBlock(program) ==
  IF program = "sync"
  THEN <<"console.error", "process.exit">>
  ELSE <<"console.error", "dropTemp", "process.exit">>

\* finally { await upstream.end(); await local.end(); } of sync(), and
\* finally { await sql.end(); await sqlDirect.end(); } of main()
FinallyBlock(program) ==
  IF program = "sync"
  THEN <<"upstream.end", "local.end">>
  ELSE <<"sql.end", "sqlDirect.end">>

\* process.exit() ends the process at once: the steps that follow it do not run
UntilExit(steps) ==
  LET exits == {k \in 1..Len(steps) : steps[k] = "process.exit"}
  IN  IF exits = {}
      THEN steps
      ELSE SubSeq(steps, 1, CHOOSE k \in exits : \A l \in exits : k <= l)

\* what runs between the end of the try block and the end of the process: the catch
\* block when an error was thrown, then the finally block
Epilogue(program, caught) ==
  UntilExit((IF caught THEN CatchBlock(program) ELSE <<>>) \o FinallyBlock(program))

-----------------------------------------------------------------------------
(* Properties of the sync pipeline *)

StageNo(stage) ==
  CASE stage = "players" -> 1 [] stage = "events" -> 2 [] stage = "standings" -> 3
    [] stage = "matches" -> 4 [] stage = "decks" -> 5 [] stage = "archetypes" -> 6

\* the writes of a run so far were issued in dependency order
WritesInStageOrder ==
  \A k, l \in 1..Len(stageLog) : k < l => StageNo(stageLog[k]) <= StageNo(stageLog[l])

\* C1: in every run the target writes are issued in the order Players, Events,
\* Standings, Matches, Decks, Archetypes (no write of a stage follows a write of a
\* later stage), and once a run has failed it writes nothing more to the target.
C1_StageOrder ==
  /\ [](WritesInStageOrder)
  /\ [][pc = "aborted" => local' = local]_vars

\* a run that wrote in all six stages has finished
C1_Witness ==
  /\ pc = "done"
  /\ Range(stageLog) = {"players", "events", "standings", "matches", "decks", "archetypes"}
  /\ Len(stageLog) > 6

\* C2: whenever a Standing, Match or Deck row is written, its Event and its Player
\* (by name) exist on the target, and whenever an Archetype row is written its Deck
\* exists on the target.
C2_DependencySafety ==
  /\ lastWrite.stage \in {"standings", "matches", "decks"} =>
       \A r \in Range(lastWrite.rows) :
         /\ r.event_id \in Ids(local.events)
         /\ r.player \in PlayerNamesOf(local.players)
  /\ lastWrite.stage = "archetypes" =>
       \A r \in Range(lastWrite.rows) : r.deck_id \in Ids(local.decks)

\* a match was written for a player and an event that this run inserted
C2_Witness ==
  /\ lastWrite.stage = "matches"
  /\ "players" \in Range(stageLog)
  /\ "events" \in Range(stageLog)
  /\ \E r \in Range(lastWrite.rows) :
       /\ r.player \in PlayerNamesOf(Range(playersToSync))
       /\ r.event_id \in Ids(Range(newEvents))

\* every dependent row the source holds for the given events is on the target
DependentsPresent(eventIds) ==
  /\ \A r \in upstream.standings : r.event_id \in eventIds => r \in local.standings
  /\ \A r \in upstream.matches : r.event_id \in eventIds => r \in local.matches
  /\ \A r \in upstream.decks : r.event_id \in eventIds => r \in local.decks
  /\ \A r \in upstream.archetypes :
       (\E k \in upstream.decks : k.id = r.deck_id /\ k.event_id \in eventIds)
         => r \in local.archetypes

\* C3: when a run aborted and the next run completes, every source Standing, Match,
\* Deck and Archetype row of every event of the aborted run's worklist is on the
\* target.
C3_ResumeCompletes ==
  (pc = "done" /\ abortedWork # <<>>) => DependentsPresent(abortedWork[1])

\* C4: the second of two successive successful runs leaves the target as the first
\* run left it.
C4_SecondRunSameState ==
  (pc = "done" /\ prevDone # <<>>) => local = prevDone[1]

\* the counts the Sync Summary prints
Summary ==
  [newEvents |-> Len(newEvents), updatedEvents |-> Len(incompleteEventIds),
   players |-> stats.players, standings |-> stats.standings, matches |-> stats.matches,
   decks |-> stats.decks, archetypes |-> stats.archetypes]

ZeroSummary ==
  [newEvents |-> 0, updatedEvents |-> 0, players |-> 0, standings |-> 0, matches |-> 0,
   decks |-> 0, archetypes |-> 0]

\* C5 as claimed: the second of two successive successful runs reports 0 new events,
\* 0 updated events and 0 players, standings, matches, decks and archetypes.
C5_SecondRunReportsZero ==
  (pc = "done" /\ prevDone # <<>>) => Summary = ZeroSummary

\* C5 as amended: the second of two successive successful runs reports 0 new events
\* and writes no Event row; its other counts are those of the events its scan still
\* classifies incomplete (the source rows of those events), all 0 when there are none.
C5_SecondRunReport ==
  (pc = "done" /\ prevDone # <<>>) =>
    /\ Summary.newEvents = 0
    /\ stats.events = 0
    /\ Summary.standings = Len(StandingsQuery(upstream, incompleteEventIds))
    /\ Summary.matches = Len(MatchesQuery(upstream, incompleteEventIds))
    /\ Summary.decks = Len(DecksQuery(upstream, incompleteEventIds))
    /\ Summary.archetypes = Len(ArchetypesQuery(upstream, incompleteEventIds))
    /\ Summary.updatedEvents = 0 => Summary = ZeroSummary

\* a second successive run that found nothing to do after a first run that wrote rows
C5_Witness ==
  /\ pc = "done"
  /\ prevDone # <<>>
  /\ Summary = ZeroSummary
  /\ \E r \in local.standings : r.v = "s"

DeckKey(r) == <<r.event_id, r.player>>

\* C6: at all times the target holds at most one Player per name, one Standing per
\* (event id, player), one Match per (event id, round, player), one Deck per
\* (event id, player) and one Event per id.
C6_NoDuplicateRows ==
  /\ \A r1, r2 \in local.players : r1.name = r2.name => r1 = r2
  /\ \A r1, r2 \in local.standings : StandingKey(r1) = StandingKey(r2) => r1 = r2
  /\ \A r1, r2 \in local.matches : MatchKey(r1) = MatchKey(r2) => r1 = r2
  /\ \A r1, r2 \in local.decks : DeckKey(r1) = DeckKey(r2) => r1 = r2
  /\ \A r1, r2 \in local.events : r1.id = r2.id => r1 = r2

-----------------------------------------------------------------------------
(* Properties of the identity reconciler *)

\* the reconciler has built its batch and not yet written it
BatchBuilt == pc = "insertPlayers"

SourceIdOf(n) == {q.id : q \in {x \in upstream.players : x.name = n}}

\* C7: a referenced name that is absent from the target and whose source id no
\* target Player uses is put in the batch with exactly the source id, and the
\* committed Players write puts that row on the target.
C7_AdoptSourceId ==
  /\ BatchBuilt =>
       \A n \in Range(playerNames) : \A sid \in SourceIdOf(n) :
         (n \notin PlayerNamesOf(local.players) /\ sid \notin Ids(local.players))
           => [id |-> sid, name |-> n] \in Range(playersToSync)
  /\ "players" \in Range(stageLog) => Range(playersToSync) \subseteq local.players

\* Alice was adopted under her source id 7 and Standings have been written
C7_Witness ==
  /\ [id |-> 7, name |-> "Alice"] \in local.players
  /\ [id |-> 7, name |-> "Alice"] \in Range(playersToSync)
  /\ lastWrite.stage = "standings"

\* the floor: the lowest negative id on the target, 0 when there is none
Floor == FirstNegativeId(local.players) + 1

\* the claim's cases for synthesis: absent from the target, and no source id or a
\* source id that a target Player holds
NeedsSynthesis(n) ==
  /\ n \notin PlayerNamesOf(local.players)
  /\ \/ SourceIdOf(n) = {}
     \/ SourceIdOf(n) \cap Ids(local.players) # {}

\* C8: the k-th name of a run that is absent from the target and has no source id,
\* or a source id held by a target Player, is given the id (floor - k).
C8_SynthesizeBelowFloor ==
  BatchBuilt =>
    \A idx \in 1..Len(playerNames) :
      NeedsSynthesis(playerNames[idx]) =>
        LET k == Cardinality({j \in 1..idx : NeedsSynthesis(playerNames[j])})
        IN  [id |-> Floor - k, name |-> playerNames[idx]] \in Range(playersToSync)

\* C9: synthesized ids are negative, pairwise distinct and different from every id on
\* the target when they are issued; a committed synthesized id stays with its name
\* and no other target Player ever holds it.
C9_SynthesizedDisjoint ==
  /\ BatchBuilt =>
       \A p \in SynthesizedIn(playersToSync) :
         /\ p.id < 0
         /\ p.id \notin Ids(local.players)
         /\ \A q \in SynthesizedIn(playersToSync) : q.id = p.id => q = p
  /\ \A p \in synthLog :
       /\ p.id < 0
       /\ p \in local.players
       /\ \A q \in local.players \cup synthLog : q.id = p.id => q = p

\* two successive runs each committed a synthesized id, the second below the first
C9_Witness ==
  /\ prevDone # <<>>
  /\ [id |-> -1, name |-> "Bob"] \in prevDone[1].players
  /\ "Alice" \notin PlayerNamesOf(prevDone[1].players)
  /\ synthLog = {[id |-> -1, name |-> "Bob"], [id |-> -2, name |-> "Alice"]}
  /\ [id |-> -2, name |-> "Alice"] \in Range(playersToSync)

\* C10: a batch never holds two entries for one name nor an entry for a name the
\* target already has, and no step changes or removes a Player row of the target.
C10_OneIdPerName ==
  /\ [](BatchBuilt =>
          /\ \A k, l \in 1..Len(playersToSync) :
               playersToSync[k].name = playersToSync[l].name => k = l
          /\ \A p \in Range(playersToSync) : p.name \notin PlayerNamesOf(local.players))
  /\ [][local.players \subseteq local'.players]_vars

\* a second run reconciled names that the first run had resolved, and issued nothing
C10_Witness ==
  /\ runs = 2
  /\ pc = "syncEvents"
  /\ synthLog # {}
  /\ playerNames # <<>>
  /\ PlayerNamesOf(synthLog) \cap Range(playerNames) # {}
  /\ playersToSync = <<>>

-----------------------------------------------------------------------------
(* Properties of the diff engine *)

\* the scan of a run is over and the run has not written an Event row yet
Scanned == pc \in {"syncPlayers", "insertPlayers", "syncEvents"}

\* the three reads of the diff engine
Scanning == pc \in {"getLocalEventIds", "getIncompleteEventIds", "getUpstreamEvents"}

\* C11: the new events of a run are exactly the source events whose id is absent
\* from the target at the scan, and the scan changes neither source nor target.
C11_NewEventsExact ==
  /\ [](Scanned => Range(EventIdsOf(newEvents)) = Ids(upstream.events) \ Ids(local.events))
  /\ [][Scanning => (upstream' = upstream /\ local' = local)]_vars

\* the scan kept source event 200 and dropped source event 100, which the target has
C11_Witness ==
  /\ Scanned
  /\ EventIdsOf(newEvents) = <<200>>
  /\ 100 \in Ids(local.events)

\* the target events with a nonzero player count and no Standing or no Match row
MissingData ==
  {e \in local.events :
     /\ e.players \notin {<<>>, <<0>>}
     /\ \/ {r \in local.standings : r.event_id = e.id} = {}
        \/ {r \in local.matches : r.event_id = e.id} = {}}

\* e is more recent than f (date, then id)
MoreRecent(e, f) == e.date > f.date \/ (e.date = f.date /\ e.id > f.id)

\* C12 as claimed: every target event with a nonzero player count and no Standing
\* or no Match row is in the worklist of the next run, and no other target event is
\* classified incomplete.
C12_EveryIncompleteInWorklist ==
  pc = "syncPlayers" =>
    /\ Ids(MissingData) \subseteq Range(allEventIdsToSync)
    /\ Range(incompleteEventIds) \subseteq Ids(MissingData)

\* C12 as amended: the events classified incomplete are the most recent (date, then
\* id) target events with a nonzero player count and no Standing or no Match row, up
\* to the limit of the query, all of them when there are no more than the limit;
\* they are in the worklist of the run, and no other target event is classified
\* incomplete.
C12_MostRecentIncompleteInWorklist ==
  pc = "syncPlayers" =>
    /\ Range(incompleteEventIds) \subseteq Ids(MissingData)
    /\ Range(incompleteEventIds) \subseteq Range(allEventIdsToSync)
    /\ Len(incompleteEventIds) =
         (IF Cardinality(MissingData) < Window THEN Cardinality(MissingData) ELSE Window)
    /\ \A e, f \in MissingData :
         (f.id \in Range(incompleteEventIds) /\ MoreRecent(e, f))
           => e.id \in Range(incompleteEventIds)

\* event 100 of the target, with a match and no standing, is in the worklist while
\* event 200, declaring no players, is not
C12_Witness ==
  /\ pc = "syncPlayers"
  /\ 100 \in Range(incompleteEventIds)
  /\ 100 \in Range(allEventIdsToSync)
  /\ \E r \in local.matches : r.event_id = 100
  /\ ~ \E r \in local.standings : r.event_id = 100
  /\ \E e \in local.events : e.id = 200 /\ e.players \in {<<>>, <<0>>}
  /\ 200 \notin Range(allEventIdsToSync)

\* the ids of the Window most recent events of the target
MostRecentTargetEvents == Ids(Range(Take(ByRecency(local.events), Window)))

\* C13: an event is returned as incomplete only if it is among the most recent N
\* events of the target by date.
C13_OnlyWithinRecencyWindow ==
  pc = "getUpstreamEvents" => Range(incompleteEventIds) \subseteq MostRecentTargetEvents

-----------------------------------------------------------------------------
(* Properties of the pipeline's writes *)

\* C14: the Events stage writes rows only for events whose id the scan did not find
\* on the target, and no step of a run changes or removes an Event row the target
\* already had (rows of incomplete events included).
C14_ExistingEventRowsUnchanged ==
  /\ []((pc # "aborted" /\ lastWrite.stage = "events") =>
          /\ lastWrite.rows = newEvents
          /\ Ids(Range(lastWrite.rows)) \cap localEventIds = {})
  /\ [][\A e \in local.events : e \in local'.events]_vars

\* a run wrote the row of new event 200 and the dependent rows of event 100, which the
\* target had as an incomplete event: the row of event 100 is still the target's own
C14_Witness ==
  /\ pc = "done"
  /\ incompleteEventIds = <<100>>
  /\ EventIdsOf(newEvents) = <<200>>
  /\ "events" \in Range(stageLog)
  /\ \E r \in local.standings : r.event_id = 100 /\ r.v = "s"
  /\ [id |-> 100, date |-> EventDate(100), players |-> <<2>>, v |-> "t"] \in local.events
  /\ [id |-> 200, date |-> EventDate(200), players |-> <<2>>, v |-> "s"] \in local.events

-----------------------------------------------------------------------------
(* Properties of the write statements *)

\* the columns named by the ON CONFLICT clause of a stage's statement
ConflictKey(stage, r) ==
  CASE stage = "players"    -> <<r.name>>
    [] stage = "events"     -> <<r.id>>
    [] stage = "standings"  -> StandingKey(r)
    [] stage = "matches"    -> MatchKey(r)
    [] stage = "decks"      -> <<r.id>>
    [] stage = "archetypes" -> <<r.id>>

\* a statement of the stage has committed
Committed(stage) == pc # "aborted" /\ lastWrite.stage = stage

\* the table of the stage holds the incoming row r and no other row under r's key
HoldsIncoming(stage, r) ==
  /\ r \in local[stage]
  /\ \A q \in local[stage] : ConflictKey(stage, q) = ConflictKey(stage, r) => q = r

\* C15 as claimed: after a write of any of the six kinds, each written record is on
\* the target with the incoming values, as the only row under its unique key
\* (overwritten when the key existed, inserted when it did not).
C15_OverwriteOrInsert ==
  \A stage \in {"players", "events", "standings", "matches", "decks", "archetypes"} :
    Committed(stage) => \A r \in Range(lastWrite.rows) : HoldsIncoming(stage, r)

\* C15 as amended: that holds for Events (key id), Standings (event id, player),
\* Matches (event id, round, player), Decks (id) and Archetypes (id); a written
\* Player record whose name exists leaves the existing row as it was, and one whose
\* name is absent is inserted.
C15_OverwriteOrInsertButPlayers ==
  /\ \A stage \in {"events", "standings", "matches", "decks", "archetypes"} :
       Committed(stage) => \A r \in Range(lastWrite.rows) : HoldsIncoming(stage, r)
  /\ Committed("players") =>
       /\ beforeStage.players \subseteq local.players
       /\ \A r \in Range(lastWrite.rows) :
            IF r.name \in PlayerNamesOf(beforeStage.players)
            THEN \A q \in local.players : q.name = r.name => q \in beforeStage.players
            ELSE HoldsIncoming("players", r)

\* a Players write met Alice under another id and left her row alone, and inserted Bob
C15_Witness ==
  /\ Committed("players")
  /\ Range(lastWrite.rows) = PlayerPool
  /\ [id |-> 9, name |-> "Alice"] \in local.players
  /\ [id |-> 7, name |-> "Alice"] \notin local.players
  /\ [id |-> 8, name |-> "Bob"] \in local.players

\* the values one row of a stage's statement carries
Columns(stage) ==
  CASE stage = "players"    -> 2
    [] stage = "events"     -> 7
    [] stage = "standings"  -> 8
    [] stage = "matches"    -> 9
    [] stage = "decks"      -> 5
    [] stage = "archetypes" -> 5

\* the BATCH_SIZE the code gives a chunked stage
CodeBatchSize(stage) ==
  CASE stage = "standings"  -> BATCH_SIZE_STANDINGS
    [] stage = "matches"    -> BATCH_SIZE_MATCHES
    [] stage = "decks"      -> BATCH_SIZE_DECKS
    [] stage = "archetypes" -> BATCH_SIZE_ARCHETYPES

Chunked == {"standings", "matches", "decks", "archetypes"}

\* the column values of the last statement, each modelled row standing for RowScale rows
ParamsOfLastWrite == Len(lastWrite.rows) * RowScale * Columns(lastWrite.stage)

\* C16: every write statement of the six stages, issued with the code's chunk size,
\* carries fewer column values than the parameter limit, and each chunk size is at
\* most floor(limit / columns).
C16_ParamsBelowLimit ==
  /\ \A stage \in Chunked : CodeBatchSize(stage) <= PARAM_LIMIT \div Columns(stage)
  /\ (/\ lastWrite.stage # None
      /\ lastWrite.stage \in Chunked => batchSize = Batch(CodeBatchSize(lastWrite.stage)))
       => ParamsOfLastWrite < PARAM_LIMIT

\* the result of the stage's statement applied once to the whole record set
Unsplit(stage, tbl, batch) ==
  CASE stage = "standings"  -> UpsertStandings(tbl, batch)
    [] stage = "matches"    -> UpsertMatches(tbl, batch)
    [] stage = "decks"      -> UpsertDecks(tbl, batch)
    [] stage = "archetypes" -> UpsertArchetypes(tbl, batch)

\* the loop of a chunked stage has ended
LoopEnded(stage) ==
  /\ lastWrite.stage = stage
  /\ pc = StageAfter(stage)

CeilDiv(m, b) == (m + b - 1) \div b

\* C17: a chunked write of M records with distinct keys, for every chunk size B,
\* leaves the table as the one unsplit statement would; the k-th statement writes
\* records (k-1)B+1 .. min(kB, M) of the set, there are ceil(M/B) statements, and
\* when no key was on the target the table has grown by exactly M rows.
C17_ChunkingTransparent ==
  /\ [](\A stage \in Chunked :
          LoopEnded(stage) =>
            /\ local[stage] = Unsplit(stage, beforeStage[stage], rows)
            /\ Len(stageLog) = CeilDiv(Len(rows), batchSize)
            /\ (\A r \in Range(rows) : \A q \in beforeStage[stage] :
                   ConflictKey(stage, q) # ConflictKey(stage, r))
                 => Cardinality(local[stage]) = Cardinality(beforeStage[stage]) + Len(rows))
  /\ [][(stageLog' # stageLog /\ lastWrite'.stage \in Chunked) =>
          /\ Len(lastWrite'.rows) <= batchSize
          /\ lastWrite'.rows =
               SubSeq(rows, batchSize * Len(stageLog) + 1,
                      IF batchSize * (Len(stageLog) + 1) < Len(rows)
                      THEN batchSize * (Len(stageLog) + 1) ELSE Len(rows))]_vars

\* three Match records were written in two chunks of at most two and the table grew
\* by three
C17_Witness ==
  /\ LoopEnded("matches")
  /\ Len(rows) = 3
  /\ batchSize = 2
  /\ Len(stageLog) = 2
  /\ Len(lastWrite.rows) = 1
  /\ Cardinality(local.matches) = Cardinality(beforeStage.matches) + 3

-----------------------------------------------------------------------------
(* Properties of failure handling *)

\* the exit status of a finished process: process.exit(1) in the catch, 0 otherwise
ExitStatus == IF pc = "aborted" THEN 1 ELSE 0

\* C18: when a statement of a run is rejected, the target keeps every write committed
\* before it (the earlier chunks of the stage and the earlier stages), the rejected
\* chunk and the chunks after it write nothing, and the run ends with a non-zero
\* exit status.
C18_FailedChunkKeepsEarlier ==
  /\ [][failures' # failures =>
          /\ local' = local
          /\ lastWrite' = lastWrite
          /\ pc' = "aborted"]_vars
  /\ [][pc = "aborted" => local' = local]_vars
  /\ [](pc = "aborted" => ExitStatus # 0)
  /\ []((pc = "aborted" /\ lastWrite.stage # None) =>
          Range(lastWrite.rows) \subseteq local[lastWrite.stage])

\* the second Standings chunk was rejected: the players, the event and the first
\* chunk are on the target, the second chunk's row is not
C18_Witness ==
  /\ pc = "aborted"
  /\ failures = 1
  /\ stageLog = <<"players", "events", "standings">>
  /\ [event_id |-> 100, rank |-> 1, player |-> "Alice", v |-> "s"] \in local.standings
  /\ ~ \E r \in local.standings : r.player = "Bob"
  /\ "Bob" \in PlayerNamesOf(local.players)
  /\ \E e \in local.events : e.id = 100 /\ e.v = "s"

\* the statement about to be issued is the INSERT of a record that violates a
\* constraint of the target
RecordViolatesConstraint ==
  \E stage \in MergeStages :
    /\ pc = LoopPc(stage)
    /\ ~ HitsArbiter(stage, local[stage], rows[i + 1])
    /\ ViolatesConstraint(stage, local, rows[i + 1])

\* C19: when the record being written violates a constraint of the target, the
\* record is skipped (nothing is written for it), the stage goes on with the next
\* record and the run does not abort.
C19_ViolatingRecordSkipped ==
  [][(RecordViolatesConstraint /\ failures' = failures) =>
       /\ pc' # "aborted"
       /\ local' = local
       /\ i' = i + 1]_vars

\* C20: every rejection of a statement that is not a constraint violation of the
\* record being written (a lost connection, a server error), in whatever stage,
\* ends the run with a non-zero exit status.
C20_OtherErrorsPropagate ==
  [][failures' # failures => pc' = "aborted"]_vars

-----------------------------------------------------------------------------
(* Properties of merge-dump *)

\* the merge process has ended and its exit status is decided
MergeEnded == pc \in {"mergeDone", "aborted"}

Restored == pc \notin {"mergeMain", "createTemp", "enableDblink", "importDump"}

\* C22: when the temporary database holds none of the six expected tables after the
\* restore, the merge never writes a row to the target and never completes: it is at
\* the verification, at the first SELECT, or has exited with status 1.
C22_NoExpectedTableFailsFast ==
  (Restored /\ merge.created /\ merge.tables \cap MergeStages = {}) =>
    /\ stageLog = <<>>
    /\ pc \in {"verify", QueryPc("players"), "aborted"}
    /\ MergeEnded => ExitStatus = 1

\* a dump without tables was restored without error and the verification ended the run
C22_Witness ==
  /\ pc = "aborted"
  /\ merge.dump = "empty"
  /\ merge.created
  /\ merge.tables = {}
  /\ failures = 0
  /\ stageLog = <<>>

\* the player and the event (or the deck) a row of a dependent table refers to exist
\* in the database d
RefsExist(stage, d, r) ==
  CASE stage \in {"decks", "matches", "standings"} ->
         /\ r.player \in PlayerNamesOf(d.players)
         /\ r.event_id \in Ids(d.events)
    [] stage = "archetypes" -> r.deck_id = NoDeck \/ r.deck_id \in Ids(d.decks)
    [] OTHER -> TRUE

\* C23: every row a merge step adds to decks, matches or standings names a player
\* and an event the target held before the step, every archetype added names no deck
\* or a deck the target held; and when the row at hand of such a loop does not, the
\* step leaves the target alone and the merge goes on.
C23_MergedRowsReferenceTarget ==
  [][/\ \A stage \in Caught : \A r \in local'[stage] \ local[stage] :
          RefsExist(stage, local, r)
     /\ \A stage \in Caught :
          (pc = LoopPc(stage) /\ ~ RefsExist(stage, local, rows[i + 1])) =>
            (local' = local /\ pc' = AfterRow(stage))]_vars

\* the deck loop met the deck of an event the target lacks, left it out, inserted
\* another deck, and the merge went on to the matches
C23_Witness ==
  /\ pc = QueryPc("matches")
  /\ failures = 0
  /\ stats.decks > 0
  /\ \E k \in 1..i : rows[k].id = 8
  /\ 8 \notin Ids(local.decks)

\* C24: no step of a merge removes or changes a row of the target, in any of the six
\* tables, and every row a step adds has a key (id, or the composite key of matches
\* and standings) that no row of the target had.
C24_MergeKeepsExistingRows ==
  [][\A stage \in MergeStages :
       /\ local[stage] \subseteq local'[stage]
       /\ \A r \in local'[stage] \ local[stage] : ~ HitsArbiter(stage, local[stage], r)]_vars

\* a merge completed and added rows to a target that holds its own version of an
\* event of the dump
C24_Witness ==
  /\ pc = "mergeDone"
  /\ stageLog # <<>>
  /\ \E r \in local.events : r.v = "t" /\ \E q \in upstream.events : q.id = r.id

\* C25: the restore of a valid dump, plain SQL or archive, succeeds and main() goes on
\* to the verification; a restore that really failed never goes on, and no row is
\* written to the target after it.
C25_RestoreMatchesFormat ==
  [][/\ (pc = "importDump" /\ merge.dump \in {"plain", "custom"}) => pc' = "verify"
     /\ (pc = "importDump" /\ pc' = "verify") => ~ merge'.restoreFailed
     /\ merge'.restoreFailed => stageLog' = <<>>]_vars

\* C26: the exit status is zero only when the run fully succeeded: a merge in which a
\* statement or a step was rejected (connection lost, server error) does not end
\* with exit status 0.
C26_ExitZeroOnlyOnSuccess ==
  (MergeEnded /\ failures > 0) => ExitStatus = 1

-----------------------------------------------------------------------------
(* Properties of both programs *)

\* C27: when one of the two connection tests at the start of a sync run is rejected,
\* the run ends at once with exit status 1, and it has written nothing to the target.
C27_UnreachableAbortsBeforeWrite ==
  [][(pc = "connect" /\ failures' # failures) =>
       /\ pc' = "aborted"
       /\ ExitStatus' = 1
       /\ local' = local
       /\ stageLog' = <<>>]_vars

\* a run with work to do ended at a connection test, with the target as it was
C27_Witness ==
  /\ pc = "aborted"
  /\ abortedWork # <<>>
  /\ abortedWork[2]
  /\ stageLog = <<>>
  /\ \E e \in upstream.events : e.id \notin Ids(local.events)

\* C28: no step of a sync or of a merge changes the source (the upstream database,
\* the restored snapshot), and no step removes a row of the target: every unique key
\* the target holds it still holds after the step, and no table gets smaller.
C28_SourceReadOnlyTargetGrows ==
  [][/\ upstream' = upstream
     /\ \A stage \in MergeStages :
          /\ Cardinality(local'[stage]) >= Cardinality(local[stage])
          /\ \A r \in local[stage] : \E q \in local'[stage] :
               ConflictKey(stage, q) = ConflictKey(stage, r)]_vars

\* the decks stage of a sync overwrote a deck of the target, or a merge completed with
\* writes next to rows of the target the dump does not hold
C28_Witness ==
  \/ /\ pc = "syncArchetypes"
     /\ \E r \in local.decks, q \in beforeStage.decks :
          q.id = r.id /\ q.v = "t" /\ r.v = "s"
  \/ /\ pc = "mergeDone"
     /\ stageLog # <<>>
     /\ \E r \in local.players : r.name = "Zed"

\* the position at which sync() calls a stage, and the list the stage is given
EntryPc(stage) ==
  CASE stage = "players"    -> "syncPlayers"
    [] stage = "events"     -> "syncEvents"
    [] stage = "standings"  -> "syncStandings"
    [] stage = "matches"    -> "syncMatches"
    [] stage = "decks"      -> "syncDecks"
    [] stage = "archetypes" -> "syncArchetypes"

StageInput(stage) == IF stage = "events" THEN newEvents ELSE allEventIdsToSync

\* C29: a sync stage called with an empty list returns at once with a count of zero:
\* it sends no SELECT to the source, writes nothing to the target, and sync() goes on
\* to the next stage.
C29_EmptyInputStageIsNoOp ==
  [][\A stage \in MergeStages :
       (pc = EntryPc(stage) /\ StageInput(stage) = <<>>) =>
         /\ reads' = reads
         /\ upstream' = upstream
         /\ local' = local
         /\ stageLog' = stageLog
         /\ stats'[stage] = 0
         /\ pc' = StageAfter(stage)]_vars

\* the six stages were called with no event ids on a source that has rows for them
C29_Witness ==
  /\ pc = "done"
  /\ allEventIdsToSync = <<>>
  /\ newEvents = <<>>
  /\ upstream.standings # {}
  /\ reads = {}
  /\ stageLog = <<>>
  /\ stats = ZeroStats

-----------------------------------------------------------------------------
(* Properties of two concurrent sync processes *)

\* the lowest negative id of a players table, 0 when it has none
LowestNegativeId(players) ==
  LET neg == {p.id : p \in {q \in players : q.id < 0}}
  IN  IF neg = {} THEN 0 ELSE CHOOSE m \in neg : \A x \in neg : m <= x

\* both processes have built their batch and neither has sent its INSERT; both read
\* the same players of the target, and both gave a temporary id to some name
BothSynthesized ==
  /\ pc = "insertPlayers"
  /\ other.pc = "insertPlayers"
  /\ other.read = beforeStage.players
  /\ SynthesizedIn(playersToSync) # {}
  /\ SynthesizedIn(other.playersToSync) # {}

\* C30: nothing keeps two sync processes apart: when both build their Players batch
\* from the same read of the target, both hand out the first id below the lowest
\* negative id of that read, each to the first name it has to invent an id for.
C30_BothStartBelowSameFloor ==
  BothSynthesized =>
    /\ \E p \in SynthesizedIn(playersToSync) : p.id = LowestNegativeId(other.read) - 1
    /\ \E q \in SynthesizedIn(other.playersToSync) : q.id = LowestNegativeId(other.read) - 1

\* the interleaving of the claim: the two batches give the same negative id to two
\* different names
C30_Witness ==
  /\ BothSynthesized
  /\ \E p \in SynthesizedIn(playersToSync), q \in SynthesizedIn(other.playersToSync) :
       p.id = q.id /\ p.id < 0 /\ p.name # q.name

-----------------------------------------------------------------------------
(* Further properties of the sync pipeline *)

\* C31: in the batch the Players stage has built, no two rows share an id and no id
\* is an id of the target's players, whatever ids the source holds (positive, zero or
\* negative).
C31_BatchIdsDistinct ==
  BatchBuilt =>
    /\ \A k, l \in 1..Len(playersToSync) :
         playersToSync[k].id = playersToSync[l].id => k = l
    /\ \A k \in 1..Len(playersToSync) : playersToSync[k].id \notin Ids(local.players)

\* the row belongs to an event outside the worklist of the running sync
OutsideWorklist(stage, d, r) ==
  IF stage = "archetypes"
  THEN \E k \in d.decks : k.id = r.deck_id /\ k.event_id \notin Range(allEventIdsToSync)
  ELSE r.event_id \notin Range(allEventIdsToSync)

\* C32: no step of a sync run removes or changes a Standing, Match, Deck or Archetype
\* row of the target that belongs to an event outside the worklist of the run, nor a
\* Player row of the target.
C32_OutsideWorklistUnchanged ==
  [][/\ pc \in Running => local.players \subseteq local'.players
     /\ \A stage \in {"standings", "matches", "decks", "archetypes"} :
          \A r \in local[stage] :
            (pc \in Running /\ OutsideWorklist(stage, local, r)) => r \in local'[stage]
    ]_vars

\* the loop positions of the stages whose rows name a player
PlayerLoops == {"insertStandings", "insertMatches", "insertDecks"}

\* C33: with a source that gains rows during the run, no step adds to the standings,
\* matches or decks of the target a row whose player the target lacks; a chunk that
\* holds such a row is rejected as a whole, and the run ends with exit status 1.
C33_DriftKeepsDependencySafety ==
  [][/\ \A stage \in {"standings", "matches", "decks"} :
          \A r \in local'[stage] \ local[stage] : r.player \in PlayerNamesOf(local.players)
     /\ (/\ pc \in PlayerLoops
         /\ \E r \in Range(Slice(rows, i, batchSize)) :
              r.player \notin PlayerNamesOf(local.players))
          => (local' = local /\ pc' = "aborted" /\ ExitStatus' = 1)
    ]_vars

\* the source gained a row of Carl after the Players stage had read it, a later
\* stage fetched the row, and the run ended without Carl on the target
C33_Witness ==
  /\ pc = "aborted"
  /\ failures = 0
  /\ {"players", "standings"} \subseteq reads
  /\ \E stage \in {"standings", "matches", "decks"} :
       /\ \E r \in upstream[stage] : r.player = "Carl" /\ r.event_id \in abortedWork[1]
       /\ \A r \in local[stage] : r.player # "Carl"
  /\ "Carl" \notin PlayerNamesOf(local.players)

\* the player the Players loop of the merge is about to insert is known to the
\* target by name under another id
NameKnownUnderOtherId ==
  /\ pc = LoopPc("players")
  /\ \E q \in local.players : q.name = rows[i + 1].name /\ q.id # rows[i + 1].id

\* C34: in merge mode the insert of a snapshot Player whose name the target holds
\* under a different id does not abort the merge, and leaves no two Player rows of
\* the target with the same name.
C34_KnownNameNeitherAbortsNorDuplicates ==
  [][(NameKnownUnderOtherId /\ failures' = failures) =>
       /\ pc' # "aborted"
       /\ \A p, q \in local'.players : p.name = q.name => p = q
    ]_vars

\* the categories whose inserts a category of the merge comes after
Preceding(stage) ==
  CASE stage \in {"decks", "matches", "standings"} -> {"players", "events"}
    [] stage = "archetypes"                         -> {"players", "events", "decks"}
    [] OTHER                                        -> {}

\* C35: in merge mode no insert of a category follows an insert of a category that
\* comes after it (players and events before decks, matches and standings; decks
\* before archetypes), and from the step at which a category's SELECT filters
\* against the target on, the preceding categories of the target no longer change:
\* the filter reads them as their inserts left them.
C35_MergeOrder ==
  [][/\ \A k, l \in 1..Len(stageLog') : k < l => stageLog'[l] \notin Preceding(stageLog'[k])
     /\ \A stage \in MergeStages :
          pc \in {QueryPc(stage), LoopPc(stage)} =>
            /\ \A t \in Preceding(stage) : local'[t] = local[t]
            /\ (pc = QueryPc(stage) /\ pc' # "aborted") =>
                 Range(rows') = MergeQueryResult(stage, upstream, local)
    ]_vars

\* a merge that inserted players, events, decks and archetypes has completed
C35_Witness ==
  /\ pc = "mergeDone"
  /\ {"players", "events", "decks", "archetypes"} \subseteq Range(stageLog)

\* the second merge of the same dump is under way or has ended
SecondMerge == merge.dump # "none" /\ runs = 1

C37_WorklistWithoutDuplicates ==
  /\ \A k, l \in 1..Len(allEventIdsToSync) :
       allEventIdsToSync[k] = allEventIdsToSync[l] => k = l
  /\ pc \in Running =>
       /\ Range(EventIdsOf(newEvents)) \cap Range(incompleteEventIds) = {}
       /\ Range(EventIdsOf(newEvents)) \cap localEventIds = {}
       /\ Range(incompleteEventIds) \subseteq localEventIds

\* a worklist made of a new event and an incomplete event that the source holds too
C37_Witness ==
  /\ pc = "syncPlayers"
  /\ Len(newEvents) > 0
  /\ Len(incompleteEventIds) > 0
  /\ Len(allEventIdsToSync) = Len(newEvents) + Len(incompleteEventIds)
  /\ \E e \in upstream.events : e.id \in Range(incompleteEventIds)

\* the process has ended: sync() returned or exited, main() returned or exited
ProcessEnded == pc \in {"done", "mergeDone", "aborted"}

\* merge-dump was called without a dump file and left before its try block
UsageExit == Program = "merge" /\ merge.dump = "none"

\* C38: when a sync run or a merge run has ended, after full success, after the
\* early return of a sync with no events, or after a caught error, the steps it ran
\* on its way out include the close of both of its connection handles.
C38_HandlesClosedOnEveryPath ==
  (ProcessEnded /\ ~ UsageExit) =>
    Range(FinallyBlock(Program)) \subseteq Range(Epilogue(Program, pc = "aborted"))

\* the number of values bound into each statement that the step at hand sends to the
\* source: upstream(array) binds one value per element of the array
SourceStatementParams ==
  LET worklist == Len(allEventIdsToSync) * ListScale
  IN  CASE pc = "getUpstreamEvents" ->
             {Cardinality(localEventIds) * ListScale}
        [] pc = "syncPlayers" /\ worklist > 0 ->
             {3 * worklist,
              Cardinality(ReferencedPlayerNames(upstream, allEventIdsToSync)) * ListScale}
        [] pc \in {"syncStandings", "syncMatches", "syncDecks"} /\ worklist > 0 ->
             {worklist}
        [] pc = "syncArchetypes" /\ worklist > 0 ->
             {worklist, Cardinality(DeckIdsQuery(upstream, allEventIdsToSync)) * ListScale}
        [] OTHER -> {}

\* C39: no statement that the sync sends to the source binds more values than the
\* parameter limit: neither the NOT IN list of the target's event ids nor the IN
\* lists of worklist event ids, of referenced player names and of deck ids.
C39_SourceParamsWithinLimit ==
  \A n \in SourceStatementParams : n <= PARAM_LIMIT

====
